---- MODULE Spec2Model ----
(***************************************************************************)
(* A model of oswstest: the worker pools (connectClients, sendClients),    *)
(* the listener (listenToClients / client.ExpectData), the per-client      *)
(* websocket reader goroutine started by client.Connect, and the           *)
(* aggregation loops of ConnectTest, OneWriteTest and ManyWriteTest.       *)
(*                                                                         *)
(* SpecPool and SpecListen run one pool resp. one listener with a consumer *)
(* of its reports; Spec is the program as config.go configures it (login,  *)
(* ConnectTest, OneWriteTest); SpecManyWrite is ManyWriteTest after a      *)
(* ConnectTest; SpecActors is the failure handling of main and RunTests.   *)
(* SpecReports is the union of the runs of SpecPool and SpecListen.        *)
(* SpecChannels (SetChannels / ClearChannels), SpecRetry (the loops of     *)
(* Login and Connect), SpecExpect (ExpectData with an expected hash),      *)
(* SpecHash (the dataHash case of the scenarios), SpecAppend (concurrent   *)
(* TestResult.Add / AddError), SpecStats (min, max and ave of a            *)
(* TestResult), SpecRunTests (the loop of RunTests), SpecReuse (two        *)
(* listeners in a row on the same clients), SpecSince (a listener with     *)
(* since and sinceSet), SpecConnectTest (ConnectTest alone),               *)
(* SpecOneWriteFirst (the first, count-terminated OneWriteTest) and        *)
(* SpecLogin (loginClients), SpecConnect (the statements of Connect) and   *)
(* SpecFinish (the finish signals of a listener) each run one part on its  *)
(* own.                                                                    *)
(*                                                                         *)
(* Goroutines are interleaved at their blocking operations.  An unbuffered *)
(* channel operation is one joint step of its sender and its receiver.     *)
(***************************************************************************)
EXTENDS Integers, Sequences, FiniteSets, TLC

\* Bounds of the model.
MaxClients == 3
MaxPar == 3
LisClients == 2
MaxCount == 2
MaxMsgs == 2
ScnClients == 2
ScnPar == 2
\* SetChannels calls in SpecChannels.
MaxSets == 4
\* Clients of SpecExpect, and the data a message can carry there.
ExpClients == 2
MaxData == 3
\* Samples of the TestResult of SpecStats, and the durations they can be:
\* the multiples of DurStep up to MaxDur * DurStep.
MaxSamples == 3
MaxDur == 3
DurStep == 10
\* Post / Dial calls of one Login / Connect in SpecRetry.
MaxTries == 5
\* Scenarios in the tests argument of RunTests in SpecRunTests.
MaxTests == 3
\* The instants a caller stores in *since in SpecSince: 2..MaxSince.
MaxSince == 3
\* Clients of SpecConnectTest and of SpecOneWriteFirst.
CtClients == 1
OwClients == 3
\* Dial calls of one Connect in SpecConnect.
MaxDials == 3

\* config.go
MaxLoginAttemts == 1
MaxConnectionAttemts == 3

\* The nil channel value of client.wsRead / client.wsError.
Nil == 0
\* Instants: the zero value of time.Time, the time.Now() of an ExpectData,
\* and the instants 2..MaxSince a caller stores in *since.
ZeroTime == 0
OwnStart == 1

\* The reader holds no message; and the data of a message whose content no
\* specification chooses.
NoData == 0
AnyData == 1

VARIABLES
    \* the clients and what runs on them
    clients,      \* the client ids handed to the operation under test (a sequence)
    admins,       \* the ids of the clients created by NewAdminClient
    test,         \* what runs: a pool alone ("pool"), a listener alone ("listen"),
                  \* the login phase ("main"), "ConnectTest", "OneWriteTest",
                  \* "ManyWriteTest", or the part a specification runs on its own
    \* the worker pool
    kind,         \* which pool runs: "connect", "send" or "none"
    parallel,     \* ParallelConnections resp. ParallelSends
    poolClients,  \* the clients argument of connectClients / sendClients
    poolPc,       \* the pool's goroutine: "idle", "dispatch", "wait", "done"
    nextIdx,      \* position of the dispatch loop in poolClients
    closed,       \* toWorker is closed
    wg,           \* the WaitGroup counter
    poolDone,     \* the done variable behind the returned *bool
    wPc,          \* worker -> "none", "idle", "op", "report", "exited"
    wClient,      \* worker -> the client it took from toWorker (0: none)
    wErr,         \* worker -> the operation returned an error
    \* the clients
    conn,         \* client -> "none", "ok" (waitForConnect closed), "failed" (connectionError closed)
    wsRead,       \* client -> Nil or the id of the channels set by SetChannels
    wsError,      \* client -> Nil or the id of the channels set by SetChannels
    rdPc,         \* client -> reader goroutine: "off", "read", "sendData", "sendErr",
                  \*           "stuck", "stuckErr" (sending on a nil channel), "exit"
    rdChan,       \* client -> the channel the reader is sending on (Nil: not sending there)
    inbox,        \* client -> messages on their way from the server, not yet read
    \* the listener
    lisPc,        \* listenToClients' goroutine: "idle", "collect", "done"
    lisGot,       \* finish signals received
    lisDone,      \* the done variable behind the returned *bool
    count,        \* the count argument of listenToClients
    edPc,         \* client -> ExpectData: "none", "wait", "loop", "since", "report",
                  \*           "reportErr", "finish", "done"
    edI,          \* client -> loop counter i of ExpectData
    edChan,       \* client -> id of readChan/errChan made by this ExpectData call
    sinceSet,     \* the sinceSet argument: "nil", "open" or "closed"
    chanId,       \* id of the channels the next listenToClients call makes
    \* the aggregation loop of the scenario
    aggPc,        \* the goroutine of main: "idle", "start", "select", "check", "returned"
    logged,       \* the clients whose Login call in main has returned nil
    poolRes,      \* the TestResult fed by the pool: [n |-> Count(), e |-> ErrCount()]
    recvRes,      \* the TestResult fed by the listener
    \* the process
    \* the data of the messages, and ExpectData's parameter expect
    expect,       \* the expected hash, 0 when ExpectData compares nothing
    payloads,     \* client -> the data of the messages on their way to it, when
                  \*           a specification chooses them
    rdMsg,        \* client -> the data m its reader is sending, NoData when none
    firstHash,    \* the local variable of the scenario
    \* a call of client.Login or client.Connect in SpecRetry
    rtOp,         \* client -> "none", "Login" or "Connect": the function called
    rtPc,         \* client -> "idle", "loop", or how it returned: "nil", "err"
    loginErrorCount, \* client -> the local variable of Login / Connect
    \* a TestResult with its samples, and the last call of min, max and ave:
    \* the samples at the time of the call (of) and what it returned (ret)
    values,       \* the field values of the TestResult: a sequence of durations
    statMin,
    statMax,
    statAve,
    \* goroutines that call Add or AddError on recvRes in SpecAppend
    apKind,       \* goroutine -> "none", "Add" or "AddError": the method it calls
    apPc,         \* goroutine -> "idle", "call", "loaded", "done"
    apLen,        \* goroutine -> the length of the slice it has read
    crashed,      \* "no", "panic", or the log.Fatal call that ended the process:
                  \* "fatalLogin", "fatalChannels", "fatalAdmin", "fatalSend",
                  \* "fatalToken", "fatalNoAdmin"
    \* history of the run, not program state
    opCalls,      \* client -> number of Connect / Send calls made by pool workers
    repDur,       \* client -> durations received from the pool for this client
    repErr,       \* client -> errors received from the pool for this client
    lisDur,       \* client -> durations received from this client's ExpectData
    lisErr,       \* client -> errors received from this client's ExpectData
    tries,        \* client -> number of Post / Dial calls of its Login / Connect
    overload,     \* client -> number of those answered with 5xx / 503
    edData,       \* client -> the data its ExpectData has received
    hashSeen,     \* the values the scenario has received on dataHash
    \* a call of RunTests
    tests,        \* the tests argument: a sequence of scenarios
    runPc,        \* RunTests: "none", "range", "call" (in test(clients)), "returned"
    runIdx,       \* position of the range loop in tests
    runR,         \* the result variable r of RunTests
    scnPc,        \* position in tests -> "none", "active", "returned": that call
    scnArg,       \* position in tests -> the clients argument of that call
    scnRet,       \* position in tests -> what that call returned
    \* history of a second listener on the same clients
    arrived,      \* client -> messages sent to it after the second listener's
                  \*           ExpectData has set its channels
    \* the since argument of ExpectData and its local variable start
    since,        \* the instant *since
    edStart,      \* client -> the variable start of its ExpectData
    sinceAtClose, \* history: *since when sinceSet was closed
    lisStart,     \* history: client -> the start of the duration it delivered
    \* the signals of a connection attempt and the statements of Connect
    waitForConnect,  \* client -> "open" / "closed": the channel c.waitForConnect
    connectionError, \* client -> "open" / "closed": the channel c.connectionError
    connected,       \* client -> the instant c.connected
    cnPc             \* client -> position in Connect: "idle", "dial", "fail",
                     \*           "stamp", "close", "nil", "err"

cfgVars == <<clients, admins, test>>
poolVars == <<kind, parallel, poolClients, poolPc, nextIdx, closed, wg, poolDone, wPc, wClient, wErr>>
clientVars == <<conn, wsRead, wsError, rdPc, rdChan, inbox>>
lisVars == <<lisPc, lisGot, lisDone, count, edPc, edI, edChan, sinceSet, chanId>>
aggVars == <<aggPc, logged, poolRes, recvRes>>
histPool == <<opCalls, repDur, repErr>>
histLis == <<lisDur, lisErr>>
retryVars == <<rtOp, rtPc, loginErrorCount, tries, overload>>
appendVars == <<apKind, apPc, apLen>>
statVars == <<values, statMin, statMax, statAve>>
runVars == <<tests, runPc, runIdx, runR, scnPc, scnArg, scnRet>>
reuseVars == <<arrived>>
sinceVars == <<since, edStart, sinceAtClose, lisStart>>
signalVars == <<waitForConnect, connectionError, connected, cnPc>>
extVars == <<runVars, reuseVars, sinceVars, signalVars, signalVars>>
hashVars == <<expect, payloads, rdMsg, edData, firstHash, hashSeen>>
vars == <<cfgVars, poolVars, clientVars, lisVars, aggVars, crashed, histPool, histLis, retryVars, hashVars, appendVars, statVars, extVars>>

\* All ids a client or a worker can have in any specification of this module.
ClientIds == 1..(MaxClients + 1)
WorkerIds == 1..(MaxPar + 1)

Range(s) == {s[i] : i \in 1..Len(s)}

\* The sequence 1, 2, ..., n.
Upto(n) == [i \in 1..n |-> i]

\* TestResult.Add and TestResult.AddError, on the two lengths a result is read by.
EmptyResult == [n |-> 0, e |-> 0]
Add_Twice(t) == [t EXCEPT !.n = @ + 2]
Add(t) == [t EXCEPT !.n = @ + 1]
AddError_Dropped(t) == t
AddError(t) == [t EXCEPT !.e = @ + 1]
CountBoth(t) == t.n + t.e

\* The process runs: no log.Fatalf and no panic has ended it.
Running == crashed = "no"

(***************************************************************************)
(* The worker pool: connectClients and sendClients.                        *)
(***************************************************************************)

\* The goroutines started by "for i := 0; i < Parallel...; i++ { go func() ... }".
Workers_OneMore(p) == 1..(p + 1)
Workers(p) == 1..p

\* The dispatch loop "for _, client := range clients { toWorker <- client }".
AfterDispatch_Skip(i) == i + 2
AfterDispatch(i) == i + 1

\* wg.Add(len(clients)), in both pools.
WgAdd(cls) == Len(cls)

\* The state of a pool right after connectClients / sendClients returned &done:
\* the goroutine has added len(clients) to the WaitGroup and started the workers.
PoolStart(k, cls, p) ==
    /\ kind' = k
    /\ parallel' = p
    /\ poolClients' = cls
    /\ poolPc' = "dispatch"
    /\ nextIdx' = 1
    /\ closed' = FALSE
    /\ wg' = WgAdd(cls)
    /\ poolDone' = FALSE
    /\ wPc' = [w \in WorkerIds |-> IF w \in Workers(p) THEN "idle" ELSE "none"]
    /\ wClient' = [w \in WorkerIds |-> 0]
    /\ wErr' = [w \in WorkerIds |-> FALSE]

\* "toWorker <- client" meets "for client := range toWorker" of worker w, which
\* goes on to call client.Connect() resp. client.Send().
Dispatch(w) ==
    /\ Running
    /\ poolPc = "dispatch"
    /\ nextIdx <= Len(poolClients)
    /\ wPc[w] = "idle"
    /\ wClient' = [wClient EXCEPT ![w] = poolClients[nextIdx]]
    /\ wPc' = [wPc EXCEPT ![w] = "op"]
    /\ opCalls' = [opCalls EXCEPT ![poolClients[nextIdx]] = @ + 1]
    /\ nextIdx' = AfterDispatch(nextIdx)
    /\ UNCHANGED <<cfgVars, retryVars, appendVars, statVars, extVars, hashVars, kind, parallel, poolClients, poolPc, closed, wg, poolDone, wErr,
                   clientVars, lisVars, aggVars, crashed, repDur, repErr, histLis>>

\* The goroutine's function body ends: the deferred close(toWorker) runs, and
\* the deferred wg.Wait() is entered.
PoolClose ==
    /\ Running
    /\ poolPc = "dispatch"
    /\ nextIdx > Len(poolClients)
    /\ closed' = TRUE
    /\ poolPc' = "wait"
    /\ UNCHANGED <<cfgVars, retryVars, appendVars, statVars, extVars, hashVars, kind, parallel, poolClients, nextIdx, wg, poolDone, wPc, wClient, wErr,
                   clientVars, lisVars, aggVars, crashed, histPool, histLis>>

\* wg.Wait() returns and the first deferred function sets done = true.
PoolWait ==
    /\ Running
    /\ poolPc = "wait"
    /\ wg = 0
    /\ poolDone' = TRUE
    /\ poolPc' = "done"
    /\ UNCHANGED <<cfgVars, retryVars, appendVars, statVars, extVars, hashVars, kind, parallel, poolClients, nextIdx, closed, wg, wPc, wClient, wErr,
                   clientVars, lisVars, aggVars, crashed, histPool, histLis>>

\* client.Connect() returns in worker w.  On success it has set c.connected,
\* closed c.waitForConnect and started the reader goroutine, and the server
\* answers the new connection with the first data; on failure it has closed
\* c.connectionError.
ConnectReturn(w) ==
    /\ Running
    /\ kind = "connect"
    /\ wPc[w] = "op"
    /\ \E ok \in BOOLEAN :
        /\ wErr' = [wErr EXCEPT ![w] = ~ok]
        /\ conn' = [conn EXCEPT ![wClient[w]] = IF ok THEN "ok" ELSE "failed"]
        /\ rdPc' = [rdPc EXCEPT ![wClient[w]] = IF ok THEN "read" ELSE @]
        /\ inbox' = [inbox EXCEPT ![wClient[w]] = IF ok THEN @ + 1 ELSE @]
    /\ wPc' = [wPc EXCEPT ![w] = "report"]
    /\ UNCHANGED <<cfgVars, retryVars, appendVars, statVars, extVars, hashVars, kind, parallel, poolClients, poolPc, nextIdx, closed, wg, poolDone, wClient,
                   wsRead, wsError, rdChan, lisVars, aggVars, crashed, histPool, histLis>>

\* The write of client.Send() takes effect on the server, which broadcasts the
\* changed data to every open websocket connection.
Broadcast == [c \in ClientIds |-> IF conn[c] = "ok" /\ rdPc[c] # "exit" THEN inbox[c] + 1 ELSE inbox[c]]

\* How client.Send() ends: nil after a 2xx answer (the server has taken the
\* write), an error, or log.Fatalln when the cookies hold no CSRF token.
SendOutcomes == {"ok", "error", "noToken"}

\* client.Send() ends in worker w.
SendReturn(w) ==
    /\ Running
    /\ kind = "send"
    /\ wPc[w] = "op"
    /\ \E out \in SendOutcomes :
        /\ wErr' = [wErr EXCEPT ![w] = (out = "error")]
        /\ inbox' = IF out = "ok" THEN Broadcast ELSE inbox
        /\ wPc' = [wPc EXCEPT ![w] = IF out = "noToken" THEN @ ELSE "report"]
        /\ crashed' = IF out = "noToken" THEN "fatalToken" ELSE crashed
    /\ UNCHANGED <<cfgVars, retryVars, appendVars, statVars, extVars, hashVars, kind, parallel, poolClients, poolPc, nextIdx, closed, wg, poolDone, wClient,
                   conn, wsRead, wsError, rdPc, rdChan, lisVars, aggVars, histPool, histLis>>

\* What worker w does once its report "errChan <- err" / "connected <- ..." has
\* been received: a connect worker calls wg.Done() and ranges on.
ReportTaken(w) ==
    /\ wPc[w] = "report"
    /\ repDur' = [repDur EXCEPT ![wClient[w]] = IF wErr[w] THEN @ ELSE @ + 1]
    /\ repErr' = [repErr EXCEPT ![wClient[w]] = IF wErr[w] THEN @ + 1 ELSE @]
    /\ poolRes' = IF wErr[w] THEN AddError(poolRes) ELSE Add(poolRes)
    /\ wPc' = [wPc EXCEPT ![w] = "idle"]
    /\ wg' = IF kind = "connect" THEN wg - 1 ELSE wg

\* The consumer of the pool's two channels receives the report of worker w.
PoolReport(w) ==
    /\ Running
    /\ test = "pool"
    /\ ReportTaken(w)
    /\ UNCHANGED <<cfgVars, retryVars, appendVars, statVars, extVars, hashVars, kind, parallel, poolClients, poolPc, nextIdx, closed, poolDone, wClient, wErr,
                   clientVars, lisVars, aggPc, logged, recvRes, crashed, opCalls, histLis>>

\* "range toWorker" ends in worker w because the channel is closed.  A send
\* worker then calls wg.Done(), which panics on a negative counter.
WorkerExit(w) ==
    /\ Running
    /\ wPc[w] = "idle"
    /\ closed
    /\ wPc' = [wPc EXCEPT ![w] = "exited"]
    /\ IF kind = "send"
         THEN IF wg = 0
                THEN crashed' = "panic" /\ wg' = wg
                ELSE crashed' = crashed /\ wg' = wg - 1
         ELSE crashed' = crashed /\ wg' = wg
    /\ UNCHANGED <<cfgVars, retryVars, appendVars, statVars, extVars, hashVars, kind, parallel, poolClients, poolPc, nextIdx, closed, poolDone, wClient, wErr,
                   clientVars, lisVars, aggVars, histPool, histLis>>

(***************************************************************************)
(* The reader goroutine that client.Connect starts, and the server.        *)
(* c.wsRead and c.wsError are written by SetChannels / ClearChannels in    *)
(* the goroutine of ExpectData and read here without synchronisation: the  *)
(* reader sees the value the field has at the moment of its read.          *)
(***************************************************************************)

\* The state in which "ch <- v" leaves the reader: a send on a nil channel
\* blocks forever.
SendOn(ch, sending, onNil) == IF ch = Nil THEN onNil ELSE sending

\* ReadMessage returns a message in the reader of client c, which goes on to
\* "c.wsRead <- m".
ReaderGetsMessage(c) ==
    /\ Running
    /\ rdPc[c] = "read"
    /\ inbox[c] > 0
    /\ inbox' = [inbox EXCEPT ![c] = @ - 1]
    /\ rdMsg' = [rdMsg EXCEPT ![c] = IF payloads[c] = <<>> THEN AnyData ELSE Head(payloads[c])]
    /\ payloads' = [payloads EXCEPT ![c] = IF @ = <<>> THEN @ ELSE Tail(@)]
    /\ rdChan' = [rdChan EXCEPT ![c] = wsRead[c]]
    /\ rdPc' = [rdPc EXCEPT ![c] = SendOn(wsRead[c], "sendData", "stuck")]
    /\ UNCHANGED <<cfgVars, retryVars, appendVars, statVars, extVars, expect, edData, firstHash, hashSeen, poolVars, conn, wsRead, wsError, lisVars, aggVars,
                   crashed, histPool, histLis>>

\* ReadMessage returns an error in the reader of client c, which goes on to
\* "c.wsError <- err" and then breaks out of its loop.
ReaderGetsError(c) ==
    /\ Running
    /\ rdPc[c] = "read"
    /\ rdChan' = [rdChan EXCEPT ![c] = wsError[c]]
    /\ rdPc' = [rdPc EXCEPT ![c] = SendOn(wsError[c], "sendErr", "stuckErr")]
    /\ UNCHANGED <<cfgVars, retryVars, appendVars, statVars, extVars, hashVars, poolVars, conn, wsRead, wsError, inbox, lisVars, aggVars,
                   crashed, histPool, histLis>>

(***************************************************************************)
(* The listener: listenToClients and client.ExpectData.  listenToClients   *)
(* passes expect = 0, so ExpectData compares no hash.                      *)
(***************************************************************************)

\* The state of a listener right after listenToClients returned &done: its
\* goroutine has started one ExpectData per client and waits on finish.
ListenStart(cnt, ss) ==
    /\ lisPc' = "collect"
    /\ lisGot' = 0
    /\ lisDone' = FALSE
    /\ count' = cnt
    /\ sinceSet' = ss
    /\ edPc' = [c \in ClientIds |-> IF c \in Range(clients) THEN "wait" ELSE "none"]
    /\ edI' = [c \in ClientIds |-> 0]
    /\ edChan' = [c \in ClientIds |-> Nil]
    /\ chanId' = chanId + 1

\* Where ExpectData stands after its i-th pass through the loop: in the loop,
\* or past it, at "<-sinceSet" or at "sinceTime <- time.Since(start)".
AfterLoop_StopAtOne(i) ==
    IF i < 1 THEN "loop"
    ELSE IF sinceSet = "open" THEN "since" ELSE "report"
AfterLoop(i) ==
    IF i < count THEN "loop"
    ELSE IF sinceSet = "open" THEN "since" ELSE "report"

\* "start = *since" after "<-sinceSet" has returned; own is the start set
\* by "start = time.Now()".
SinceStart_Own(own) == own
SinceStart(own) == since

\* The variable start when ExpectData has come to pc: on its way to
\* "sinceTime <- time.Since(start)" with sinceSet closed it has passed
\* "<-sinceSet" and "start = *since".
StartAt(pc, own) ==
    IF pc = "report" /\ sinceSet = "closed" THEN SinceStart(own) ELSE own

\* client.SetChannels(read, err), both channels carrying the id ch: fatal when
\* one of the client's channels is set, the channels staying as they are.
SetChannels_Replace(c, ch) ==
    /\ wsRead' = [wsRead EXCEPT ![c] = ch]
    /\ wsError' = [wsError EXCEPT ![c] = ch]
    /\ UNCHANGED crashed
SetChannels(c, ch) ==
    IF wsRead[c] # Nil \/ wsError[c] # Nil
      THEN /\ crashed' = "fatalChannels"
           /\ UNCHANGED <<wsRead, wsError>>
      ELSE /\ wsRead' = [wsRead EXCEPT ![c] = ch]
           /\ wsError' = [wsError EXCEPT ![c] = ch]
           /\ UNCHANGED crashed

\* client.ClearChannels().
ClearChannels_ReadOnly(c) ==
    /\ wsRead' = [wsRead EXCEPT ![c] = Nil]
    /\ UNCHANGED wsError
ClearChannels(c) ==
    /\ wsRead' = [wsRead EXCEPT ![c] = Nil]
    /\ wsError' = [wsError EXCEPT ![c] = Nil]

\* ExpectData of client c sees waitForConnect closed, makes readChan and
\* errChan and calls SetChannels; log.Fatalf in it ends the process.
EDConnected(c) ==
    /\ Running
    /\ edPc[c] = "wait"
    /\ conn[c] = "ok"
    /\ SetChannels(c, chanId)
    /\ IF crashed' # crashed
         THEN UNCHANGED <<edPc, edChan, edStart>>
         ELSE /\ edChan' = [edChan EXCEPT ![c] = chanId]
              /\ edPc' = [edPc EXCEPT ![c] = AfterLoop(0)]
              /\ edStart' = [edStart EXCEPT ![c] = StartAt(AfterLoop(0), OwnStart)]
    /\ UNCHANGED <<cfgVars, retryVars, appendVars, statVars, runVars, signalVars, reuseVars, since, sinceAtClose, lisStart, hashVars, poolVars, conn, rdPc, rdChan, inbox,
                   lisPc, lisGot, lisDone, count, edI, sinceSet, chanId,
                   aggVars, histPool, histLis>>

\* Where ExpectData stands after "case <-c.connectionError: return": at the
\* deferred "finish <- true".
AfterConnectionError_Reported == "reportErr"
AfterConnectionError_NoFinish == "done"
AfterConnectionError == "finish"

\* ExpectData of client c sees connectionError closed and returns.
EDConnFailed(c) ==
    /\ Running
    /\ edPc[c] = "wait"
    /\ conn[c] = "failed"
    /\ edPc' = [edPc EXCEPT ![c] = AfterConnectionError]
    /\ UNCHANGED <<cfgVars, retryVars, appendVars, statVars, extVars, hashVars, poolVars, clientVars, lisPc, lisGot, lisDone, count,
                   edI, edChan, sinceSet, chanId, aggVars, crashed, histPool, histLis>>

\* hashData: many data have one hash.
hashData(data) == (data + 1) \div 2

\* "expect != 0 && expect != hashData(data)" in ExpectData.
Mismatch_Never(data) == FALSE
Mismatch(data) == expect # 0 /\ expect # hashData(data)

\* "case data := <-readChan" meets the reader's "c.wsRead <- m"; when the
\* hash of the data is not the expected one, ExpectData goes on to
\* "err <- ..." and returns.
EDRecvData(c) ==
    /\ Running
    /\ edPc[c] = "loop"
    /\ rdPc[c] = "sendData"
    /\ rdChan[c] = edChan[c]
    /\ rdPc' = [rdPc EXCEPT ![c] = "read"]
    /\ rdChan' = [rdChan EXCEPT ![c] = Nil]
    /\ rdMsg' = [rdMsg EXCEPT ![c] = NoData]
    /\ edData' = [edData EXCEPT ![c] = Append(@, rdMsg[c])]
    /\ IF Mismatch(rdMsg[c])
         THEN /\ edPc' = [edPc EXCEPT ![c] = "reportErr"]
              /\ UNCHANGED <<edI, edStart>>
         ELSE /\ edI' = [edI EXCEPT ![c] = @ + 1]
              /\ edPc' = [edPc EXCEPT ![c] = AfterLoop(edI[c] + 1)]
              /\ edStart' = [edStart EXCEPT ![c] = StartAt(AfterLoop(edI[c] + 1), @)]
    /\ UNCHANGED <<cfgVars, retryVars, appendVars, statVars, runVars, signalVars, reuseVars, since, sinceAtClose, lisStart, expect, payloads, firstHash, hashSeen, poolVars, conn, wsRead, wsError, inbox,
                   lisPc, lisGot, lisDone, count, edChan, sinceSet, chanId,
                   aggVars, crashed, histPool, histLis>>

\* Where ExpectData stands after "case data := <-errChan" in its i-th pass
\* through the loop: at "err <- data", after which it returns.
AfterError_NextPass(i) == AfterLoop(i + 1)
AfterError(i) == "reportErr"

\* "case data := <-errChan" meets the reader's "c.wsError <- err"; the reader
\* breaks and closes the connection.
EDRecvErr(c) ==
    /\ Running
    /\ edPc[c] = "loop"
    /\ rdPc[c] = "sendErr"
    /\ rdChan[c] = edChan[c]
    /\ rdPc' = [rdPc EXCEPT ![c] = "exit"]
    /\ rdChan' = [rdChan EXCEPT ![c] = Nil]
    /\ edPc' = [edPc EXCEPT ![c] = AfterError(edI[c])]
    /\ UNCHANGED <<cfgVars, retryVars, appendVars, statVars, extVars, hashVars, poolVars, conn, wsRead, wsError, inbox,
                   lisPc, lisGot, lisDone, count, edI, edChan, sinceSet, chanId,
                   aggVars, crashed, histPool, histLis>>

\* "<-sinceSet" returns in ExpectData of client c: the channel is closed;
\* "start = *since" follows.
EDSinceSet(c) ==
    /\ Running
    /\ edPc[c] = "since"
    /\ sinceSet = "closed"
    /\ edPc' = [edPc EXCEPT ![c] = "report"]
    /\ edStart' = [edStart EXCEPT ![c] = SinceStart(@)]
    /\ UNCHANGED <<cfgVars, retryVars, appendVars, statVars, runVars, signalVars, reuseVars, since, sinceAtClose, lisStart, hashVars, poolVars, clientVars, lisPc, lisGot, lisDone, count,
                   edI, edChan, sinceSet, chanId, aggVars, crashed, histPool, histLis>>

\* What ExpectData of client c does once its report "sinceTime <- ..." or
\* "err <- ..." has been received: the deferred ClearChannels runs and the
\* goroutine goes on to the deferred "finish <- true".
EDReportTaken(c) ==
    /\ edPc[c] \in {"report", "reportErr"}
    /\ lisDur' = [lisDur EXCEPT ![c] = IF edPc[c] = "report" THEN @ + 1 ELSE @]
    /\ lisErr' = [lisErr EXCEPT ![c] = IF edPc[c] = "reportErr" THEN @ + 1 ELSE @]
    /\ recvRes' = IF edPc[c] = "report" THEN Add(recvRes) ELSE AddError(recvRes)
    /\ lisStart' = [lisStart EXCEPT ![c] = IF edPc[c] = "report" THEN edStart[c] ELSE @]
    /\ ClearChannels(c)
    /\ edPc' = [edPc EXCEPT ![c] = "finish"]

\* Whether the listener's loop over "<-finish" has ended after got signals.
AllFinished_OneEarly(got) == got >= Len(clients) - 1
AllFinished(got) == got >= Len(clients)

\* "<-finish" in listenToClients' goroutine meets the deferred "finish <- true"
\* of client c's ExpectData; after the last one the goroutine sets done = true.
ListenerRecvFinish(c) ==
    /\ Running
    /\ lisPc = "collect"
    /\ edPc[c] = "finish"
    /\ edPc' = [edPc EXCEPT ![c] = "done"]
    /\ lisGot' = lisGot + 1
    /\ lisDone' = AllFinished(lisGot + 1)
    /\ lisPc' = IF AllFinished(lisGot + 1) THEN "done" ELSE "collect"
    /\ UNCHANGED <<cfgVars, retryVars, appendVars, statVars, extVars, hashVars, poolVars, clientVars, count, edI, edChan, sinceSet, chanId,
                   aggVars, crashed, histPool, histLis>>

\* The consumer of the listener's two channels receives the report of client c.
ListenReport(c) ==
    /\ Running
    /\ test = "listen"
    /\ EDReportTaken(c)
    /\ UNCHANGED <<cfgVars, retryVars, appendVars, statVars, runVars, signalVars, reuseVars, since, edStart, sinceAtClose, hashVars, poolVars, conn, rdPc, rdChan, inbox,
                   lisPc, lisGot, lisDone, count, edI, edChan, sinceSet, chanId,
                   aggPc, logged, poolRes, crashed, histPool>>

\* The caller of listenToClients has set *since and closes sinceSet.
CloseSinceSet ==
    /\ Running
    /\ sinceSet = "open"
    /\ sinceSet' = "closed"
    /\ sinceAtClose' = since
    /\ UNCHANGED <<cfgVars, retryVars, appendVars, statVars, runVars, signalVars, reuseVars, since, edStart, lisStart, hashVars, poolVars, clientVars, lisPc, lisGot, lisDone, count,
                   edPc, edI, edChan, chanId, aggVars, crashed, histPool, histLis>>

(***************************************************************************)
(* SpecPool: one pool, connectClients or sendClients, over N clients with  *)
(* parallelism P, and a consumer that keeps receiving on both channels.    *)
(***************************************************************************)

\* Values of the variables of the parts that a specification does not run.
NoPool ==
    /\ kind = "none"
    /\ parallel = 0
    /\ poolClients = <<>>
    /\ poolPc = "idle"
    /\ nextIdx = 1
    /\ closed = FALSE
    /\ wg = 0
    /\ poolDone = FALSE
    /\ wPc = [w \in WorkerIds |-> "none"]
    /\ wClient = [w \in WorkerIds |-> 0]
    /\ wErr = [w \in WorkerIds |-> FALSE]

NoListener ==
    /\ lisPc = "idle"
    /\ lisGot = 0
    /\ lisDone = FALSE
    /\ count = 0
    /\ edPc = [c \in ClientIds |-> "none"]
    /\ edI = [c \in ClientIds |-> 0]
    /\ edChan = [c \in ClientIds |-> Nil]
    /\ sinceSet = "nil"
    /\ chanId = 1

\* listenToClients passes expect = 0, and no specification but SpecExpect
\* chooses the data of a message.
NoHashes ==
    /\ expect = 0
    /\ payloads = [c \in ClientIds |-> <<>>]
    /\ rdMsg = [c \in ClientIds |-> NoData]
    /\ edData = [c \in ClientIds |-> <<>>]
    /\ firstHash = 0
    /\ hashSeen = <<>>

\* RunTests is not called.
NoRun ==
    /\ tests = <<>>
    /\ runPc = "none"
    /\ runIdx = 0
    /\ runR = <<>>
    /\ scnPc = <<>>
    /\ scnArg = <<>>
    /\ scnRet = <<>>

\* The caller of listenToClients has not set *since, and no ExpectData has
\* set its start.
NoSince ==
    /\ since = ZeroTime
    /\ edStart = [c \in ClientIds |-> ZeroTime]
    /\ sinceAtClose = ZeroTime
    /\ lisStart = [c \in ClientIds |-> ZeroTime]

\* NewAnonymousClient: both signals made and open, connected the zero time;
\* Connect not called.
NoSignals ==
    /\ waitForConnect = [c \in ClientIds |-> "open"]
    /\ connectionError = [c \in ClientIds |-> "open"]
    /\ connected = [c \in ClientIds |-> ZeroTime]
    /\ cnPc = [c \in ClientIds |-> "idle"]

\* What the specifications of the program's parts leave alone.
NoExt ==
    /\ NoRun
    /\ arrived = [c \in ClientIds |-> 0]
    /\ NoSince
    /\ NoSignals

\* A TestResult without samples on which min, max and ave were not called.
NoStats ==
    /\ values = <<>>
    /\ statMin = [of |-> <<>>, ret |-> 0]
    /\ statMax = [of |-> <<>>, ret |-> 0]
    /\ statAve = [of |-> <<>>, ret |-> 0]

NoAppend ==
    /\ apKind = [g \in ClientIds |-> "none"]
    /\ apPc = [g \in ClientIds |-> "idle"]
    /\ apLen = [g \in ClientIds |-> 0]

NoRetry ==
    /\ rtOp = [c \in ClientIds |-> "none"]
    /\ rtPc = [c \in ClientIds |-> "idle"]
    /\ loginErrorCount = [c \in ClientIds |-> 0]
    /\ tries = [c \in ClientIds |-> 0]
    /\ overload = [c \in ClientIds |-> 0]

NoHistory ==
    /\ opCalls = [c \in ClientIds |-> 0]
    /\ repDur = [c \in ClientIds |-> 0]
    /\ repErr = [c \in ClientIds |-> 0]
    /\ lisDur = [c \in ClientIds |-> 0]
    /\ lisErr = [c \in ClientIds |-> 0]

\* Clients as NewAdminClient / NewUserClient return them: not connected, no
\* channels set, no reader goroutine.
NewClients ==
    /\ conn = [c \in ClientIds |-> "none"]
    /\ wsRead = [c \in ClientIds |-> Nil]
    /\ wsError = [c \in ClientIds |-> Nil]
    /\ rdPc = [c \in ClientIds |-> "off"]
    /\ rdChan = [c \in ClientIds |-> Nil]
    /\ inbox = [c \in ClientIds |-> 0]

\* Clients after a ConnectTest in which the clients of set S connected and the
\* listeners have detached: the reader goroutine of each waits in ReadMessage.
ConnectedClients(S) ==
    /\ conn = [c \in ClientIds |-> IF c \in S THEN "ok" ELSE "none"]
    /\ wsRead = [c \in ClientIds |-> Nil]
    /\ wsError = [c \in ClientIds |-> Nil]
    /\ rdPc = [c \in ClientIds |-> IF c \in S THEN "read" ELSE "off"]
    /\ rdChan = [c \in ClientIds |-> Nil]
    /\ inbox = [c \in ClientIds |-> 0]

InitPool ==
    /\ test = "pool"
    /\ \E n \in 1..MaxClients : clients = Upto(n)
    /\ parallel \in 0..MaxPar
    /\ kind \in {"connect", "send"}
    /\ admins = IF kind = "send" THEN Range(clients) ELSE {}
    /\ poolClients = clients
    /\ poolPc = "dispatch"
    /\ nextIdx = 1
    /\ closed = FALSE
    /\ wg = WgAdd(clients)
    /\ poolDone = FALSE
    /\ wPc = [w \in WorkerIds |-> IF w \in Workers(parallel) THEN "idle" ELSE "none"]
    /\ wClient = [w \in WorkerIds |-> 0]
    /\ wErr = [w \in WorkerIds |-> FALSE]
    /\ IF kind = "send" THEN ConnectedClients(Range(clients)) ELSE NewClients
    /\ NoListener
    /\ aggPc = "idle"
    /\ logged = {}
    /\ poolRes = EmptyResult
    /\ recvRes = EmptyResult
    /\ crashed = "no"
    /\ NoHistory
    /\ NoRetry
    /\ NoAppend
    /\ NoStats
    /\ NoExt
    /\ NoHashes

\* The steps both pools share.
PoolStep ==
    \/ \E w \in WorkerIds : Dispatch(w)
    \/ PoolClose
    \/ PoolWait
    \/ \E w \in WorkerIds : WorkerExit(w)

NextPool ==
    \/ PoolStep
    \/ \E w \in WorkerIds : ConnectReturn(w)
    \/ \E w \in WorkerIds : SendReturn(w)
    \/ \E w \in WorkerIds : PoolReport(w)

SpecPool == InitPool /\ [][NextPool]_vars

(***************************************************************************)
(* SpecListen: listenToClients over M clients whose connection attempt is  *)
(* over (as in OneWriteTest and ManyWriteTest), up to MaxMsgs messages on  *)
(* their way to each connected client, the readers, and a consumer that    *)
(* keeps receiving on both channels.                                       *)
(***************************************************************************)

\* listenToClients treats all its clients alike, so of the initial states
\* that differ only by a permutation of the clients one is taken: the failed
\* connections last, the connected clients by falling number of messages.
ListenOrder(c, d) ==
    /\ conn[c] = "failed" => conn[d] = "failed"
    /\ inbox[c] >= inbox[d]

InitListen ==
    /\ test = "listen"
    /\ \E n \in 1..LisClients : clients = Upto(n)
    /\ admins = {}
    /\ NoPool
    /\ conn \in [ClientIds -> {"none", "ok", "failed"}]
    /\ \A c \in ClientIds : conn[c] = "none" <=> c \notin Range(clients)
    /\ wsRead = [c \in ClientIds |-> Nil]
    /\ wsError = [c \in ClientIds |-> Nil]
    /\ rdPc = [c \in ClientIds |-> IF conn[c] = "ok" THEN "read" ELSE "off"]
    /\ rdChan = [c \in ClientIds |-> Nil]
    /\ inbox \in [ClientIds -> 0..MaxMsgs]
    /\ \A c \in ClientIds : conn[c] # "ok" => inbox[c] = 0
    /\ \A c, d \in Range(clients) : c < d => ListenOrder(c, d)
    /\ lisPc = "collect"
    /\ lisGot = 0
    /\ lisDone = FALSE
    /\ count \in 1..MaxCount
    /\ sinceSet \in {"nil", "open"}
    /\ edPc = [c \in ClientIds |-> IF c \in Range(clients) THEN "wait" ELSE "none"]
    /\ edI = [c \in ClientIds |-> 0]
    /\ edChan = [c \in ClientIds |-> Nil]
    /\ chanId = 1
    /\ aggPc = "idle"
    /\ logged = {}
    /\ poolRes = EmptyResult
    /\ recvRes = EmptyResult
    /\ crashed = "no"
    /\ NoHistory
    /\ NoRetry
    /\ NoAppend
    /\ NoStats
    /\ NoExt
    /\ NoHashes

ReaderStep ==
    \/ \E c \in ClientIds : ReaderGetsMessage(c)
    \/ \E c \in ClientIds : ReaderGetsError(c)

ListenerStep ==
    \/ \E c \in ClientIds : EDConnected(c)
    \/ \E c \in ClientIds : EDConnFailed(c)
    \/ \E c \in ClientIds : EDRecvData(c)
    \/ \E c \in ClientIds : EDRecvErr(c)
    \/ \E c \in ClientIds : ListenerRecvFinish(c)

NextListen ==
    \/ ReaderStep
    \/ ListenerStep
    \/ \E c \in ClientIds : EDSinceSet(c)
    \/ CloseSinceSet
    \/ \E c \in ClientIds : ListenReport(c)

SpecListen == InitListen /\ [][NextListen]_vars

(***************************************************************************)
(* Spec: the program.  main logs every client in and RunTests runs the     *)
(* Tests list of config.go, ConnectTest and then OneWriteTest.  The        *)
(* goroutine of main runs the scenario's aggregation loop.                 *)
(***************************************************************************)

\* The goroutine "err := client.Login(); if err != nil { log.Fatalf(...) }" of
\* client c ends.
LoginReturn(c) ==
    /\ Running
    /\ aggPc = "login"
    /\ c \in Range(clients) \ logged
    /\ \E ok \in BOOLEAN :
        /\ logged' = IF ok THEN logged \cup {c} ELSE logged
        /\ crashed' = IF ok THEN crashed ELSE "fatalLogin"
    /\ UNCHANGED <<cfgVars, retryVars, appendVars, statVars, extVars, hashVars, poolVars, clientVars, lisVars, aggPc, poolRes, recvRes,
                   histPool, histLis>>

\* wg.Wait() returns in main, RunTests calls ConnectTest, which starts
\* connectClients and listenToClients(..., 1) and enters its loop.
ConnectTestStart ==
    /\ Running
    /\ aggPc = "login"
    /\ logged = Range(clients)
    /\ test' = "ConnectTest"
    /\ \E p \in 1..ScnPar : PoolStart("connect", clients, p)
    /\ ListenStart(1, "nil")
    /\ aggPc' = "select"
    /\ UNCHANGED <<clients, admins, retryVars, appendVars, statVars, extVars, hashVars, clientVars, logged, poolRes, recvRes, crashed,
                   histPool, histLis>>

\* The condition under which the scenario's loop breaks after its select.
Finished ==
    CASE test = "ConnectTest" -> poolDone /\ lisDone
      [] test = "OneWriteTest" -> lisDone
      [] test = "ManyWriteTest" -> poolDone /\ lisDone
      [] OTHER -> FALSE

\* "case value := <-connected / <-connectedError" (ConnectTest) resp.
\* "<-dataSended / <-errorSended" (ManyWriteTest) receives from worker w.
AggPoolReport(w) ==
    /\ Running
    /\ aggPc = "select"
    /\ test \in {"ConnectTest", "ManyWriteTest"}
    /\ ReportTaken(w)
    /\ aggPc' = "check"
    /\ UNCHANGED <<cfgVars, retryVars, appendVars, statVars, extVars, hashVars, kind, parallel, poolClients, poolPc, nextIdx, closed, poolDone, wClient, wErr,
                   clientVars, lisVars, logged, recvRes, crashed, opCalls, histLis>>

\* "case value := <-dataReceived / <-errorReceived" receives from the
\* ExpectData of client c.
AggListenReport(c) ==
    /\ Running
    /\ aggPc = "select"
    /\ EDReportTaken(c)
    /\ aggPc' = "check"
    /\ UNCHANGED <<cfgVars, retryVars, appendVars, statVars, runVars, signalVars, reuseVars, since, edStart, sinceAtClose, hashVars, poolVars, conn, rdPc, rdChan, inbox,
                   lisPc, lisGot, lisDone, count, edI, edChan, sinceSet, chanId,
                   logged, poolRes, crashed, histPool>>

\* "case <-tick": the status line is logged, and the "if ... { break }" that
\* follows the select is evaluated.  The tick itself changes nothing, so it
\* is taken at the moment of that evaluation.
Tick ==
    /\ Running
    /\ aggPc = "select"
    /\ aggPc' = IF Finished THEN "returned" ELSE "select"
    /\ UNCHANGED <<cfgVars, retryVars, appendVars, statVars, extVars, hashVars, poolVars, clientVars, lisVars, logged, poolRes, recvRes,
                   crashed, histPool, histLis>>

\* The "if *...Finished { break }" that follows a received report.
AggCheck ==
    /\ Running
    /\ aggPc = "check"
    /\ aggPc' = IF Finished THEN "returned" ELSE "select"
    /\ UNCHANGED <<cfgVars, retryVars, appendVars, statVars, extVars, hashVars, poolVars, clientVars, lisVars, logged, poolRes, recvRes,
                   crashed, histPool, histLis>>

\* ConnectTest has returned and RunTests calls the next test of the list.  The
\* workers of connectClients have left their range loop by then: that last
\* step of theirs changes nothing another goroutine reads.
NextTest ==
    /\ Running
    /\ test = "ConnectTest"
    /\ aggPc = "returned"
    /\ \A w \in WorkerIds : wPc[w] \in {"none", "exited"}
    /\ test' = "OneWriteTest"
    /\ aggPc' = "start"
    /\ poolRes' = EmptyResult
    /\ recvRes' = EmptyResult
    /\ opCalls' = [c \in ClientIds |-> 0]
    /\ repDur' = [c \in ClientIds |-> 0]
    /\ repErr' = [c \in ClientIds |-> 0]
    /\ lisDur' = [c \in ClientIds |-> 0]
    /\ lisErr' = [c \in ClientIds |-> 0]
    /\ edData' = [c \in ClientIds |-> <<>>]
    /\ firstHash' = 0
    /\ hashSeen' = <<>>
    /\ UNCHANGED <<clients, admins, retryVars, appendVars, statVars, extVars, expect, payloads, rdMsg, poolVars, clientVars,
                   lisVars, logged, crashed>>

\* IsAdmin() && IsConnected() of client c.
ConnectedAdmin_AnyAdmin(c) == c \in admins
ConnectedAdmin(c) == c \in admins /\ conn[c] = "ok"

\* The client OneWriteTest takes as its admin: clients[0].
OneWriteAdmin_Last == clients[Len(clients)]
OneWriteAdmin == clients[1]

\* OneWriteTest looks at clients[0], fatal unless a connected admin client.
OneWriteCheck ==
    /\ Running
    /\ test = "OneWriteTest"
    /\ aggPc = "start"
    /\ aggPc' = IF ConnectedAdmin(OneWriteAdmin) THEN "send" ELSE aggPc
    /\ crashed' = IF ConnectedAdmin(OneWriteAdmin) THEN crashed ELSE "fatalAdmin"
    /\ UNCHANGED <<cfgVars, retryVars, appendVars, statVars, extVars, hashVars, poolVars, clientVars, lisVars, logged, poolRes, recvRes,
                   histPool, histLis>>

\* admin.Send() ends in OneWriteTest: an error is fatal; after a success the
\* scenario starts listenToClients(..., 1) and enters its loop.
OneWriteSend ==
    /\ Running
    /\ test = "OneWriteTest"
    /\ aggPc = "send"
    /\ opCalls' = [opCalls EXCEPT ![OneWriteAdmin] = @ + 1]
    /\ \E out \in SendOutcomes :
        IF out = "ok"
          THEN /\ inbox' = Broadcast
               /\ ListenStart(1, "nil")
               /\ aggPc' = "select"
               /\ UNCHANGED crashed
          ELSE /\ crashed' = IF out = "noToken" THEN "fatalToken" ELSE "fatalSend"
               /\ UNCHANGED <<inbox, lisVars, aggPc>>
    /\ UNCHANGED <<cfgVars, retryVars, appendVars, statVars, extVars, hashVars, poolVars, conn, wsRead, wsError, rdPc, rdChan, logged, poolRes, recvRes,
                   repDur, repErr, histLis>>

\* The "admins" slice of ManyWriteTest, in the order of clients.
ConnectedAdmins == SelectSeq(clients, ConnectedAdmin)

\* ManyWriteTest collects the connected admin clients, fatal if there is none,
\* starts sendClients(admins) and listenToClients(..., len(admins)) and enters
\* its loop.
ManyWriteStart ==
    /\ Running
    /\ test = "ManyWriteTest"
    /\ aggPc = "start"
    /\ IF Len(ConnectedAdmins) = 0
         THEN /\ crashed' = "fatalNoAdmin"
              /\ UNCHANGED <<poolVars, lisVars, aggPc>>
         ELSE /\ \E p \in 1..ScnPar : PoolStart("send", ConnectedAdmins, p)
              /\ ListenStart(Len(ConnectedAdmins), "nil")
              /\ aggPc' = "select"
              /\ UNCHANGED crashed
    /\ UNCHANGED <<cfgVars, retryVars, appendVars, statVars, extVars, hashVars, clientVars, logged, poolRes, recvRes, histPool, histLis>>

\* main after "clients = append(clients, client)": the admin clients first.
Init ==
    /\ test = "main"
    /\ \E n \in 1..ScnClients : clients = Upto(n)
    /\ \E a \in 0..Len(clients) : admins = 1..a
    /\ NoPool
    /\ NewClients
    /\ NoListener
    /\ aggPc = "login"
    /\ logged = {}
    /\ poolRes = EmptyResult
    /\ recvRes = EmptyResult
    /\ crashed = "no"
    /\ NoHistory
    /\ NoRetry
    /\ NoAppend
    /\ NoStats
    /\ NoExt
    /\ NoHashes

MainStep ==
    \/ \E c \in ClientIds : LoginReturn(c)
    \/ ConnectTestStart
    \/ NextTest
    \/ OneWriteCheck
    \/ OneWriteSend

AggStep ==
    \/ \E w \in WorkerIds : AggPoolReport(w)
    \/ \E c \in ClientIds : AggListenReport(c)
    \/ AggCheck

\* The program without its ticker.
Step ==
    \/ MainStep
    \/ PoolStep
    \/ \E w \in WorkerIds : ConnectReturn(w)
    \/ ReaderStep
    \/ ListenerStep
    \/ AggStep

Next ==
    \/ Step
    \/ Tick

Spec == Init /\ [][Next]_vars

\* The steps of the program's goroutines, without the ticker: what is left is
\* the network breaking a connection (ReaderGetsError).
GoStep ==
    \/ MainStep
    \/ PoolStep
    \/ \E w \in WorkerIds : ConnectReturn(w)
    \/ \E w \in WorkerIds : SendReturn(w)
    \/ ManyWriteStart
    \/ \E c \in ClientIds : ReaderGetsMessage(c)
    \/ ListenerStep
    \/ AggStep

\* The scheduler runs a goroutine that can take a step, and the ticker fires
\* every second.
FairSpec == Spec /\ WF_vars(GoStep) /\ WF_vars(Tick)

\* The program when the tick channel never fires.
FairSpecNoTick == Init /\ [][Step]_vars /\ WF_vars(GoStep)

(***************************************************************************)
(* SpecManyWrite: ManyWriteTest, called by RunTests after a ConnectTest.   *)
(***************************************************************************)

\* The state in which RunTests calls the test that follows ConnectTest: every
\* login has succeeded, every Connect has succeeded or failed for good, every
\* connected client has got its first data and its reader waits in
\* ReadMessage; the pool (here with one worker) and the listener of
\* ConnectTest are done.
AfterConnectTest ==
    /\ \E n \in 1..ScnClients : clients = Upto(n)
    /\ \E a \in 0..Len(clients) : admins = 1..a
    /\ logged = Range(clients)
    /\ conn \in [ClientIds -> {"none", "ok", "failed"}]
    /\ \A c \in ClientIds : conn[c] = "none" <=> c \notin Range(clients)
    /\ wsRead = [c \in ClientIds |-> Nil]
    /\ wsError = [c \in ClientIds |-> Nil]
    /\ rdPc = [c \in ClientIds |-> IF conn[c] = "ok" THEN "read" ELSE "off"]
    /\ rdChan = [c \in ClientIds |-> Nil]
    /\ inbox = [c \in ClientIds |-> 0]
    /\ kind = "connect"
    /\ parallel = 1
    /\ poolClients = clients
    /\ poolPc = "done"
    /\ nextIdx = Len(clients) + 1
    /\ closed = TRUE
    /\ wg = 0
    /\ poolDone = TRUE
    /\ wPc = [w \in WorkerIds |-> IF w \in Workers(1) THEN "exited" ELSE "none"]
    /\ wClient = [w \in WorkerIds |-> IF w \in Workers(1) THEN Len(clients) ELSE 0]
    /\ wErr = [w \in WorkerIds |-> w \in Workers(1) /\ conn[Len(clients)] = "failed"]
    /\ chanId = 2
    /\ lisPc = "done"
    /\ lisGot = Len(clients)
    /\ lisDone = TRUE
    /\ count = 1
    /\ edPc = [c \in ClientIds |-> IF c \in Range(clients) THEN "done" ELSE "none"]
    /\ edI = [c \in ClientIds |-> IF conn[c] = "ok" THEN 1 ELSE 0]
    /\ edChan = [c \in ClientIds |-> IF conn[c] = "ok" THEN chanId ELSE Nil]
    /\ sinceSet = "nil"
    /\ aggPc = "start"
    /\ poolRes = EmptyResult
    /\ recvRes = EmptyResult
    /\ crashed = "no"
    /\ NoHistory
    /\ NoRetry
    /\ NoAppend
    /\ NoStats
    /\ NoExt
    /\ NoHashes

InitManyWrite ==
    /\ test = "ManyWriteTest"
    /\ AfterConnectTest

NextManyWrite ==
    \/ ManyWriteStart
    \/ PoolStep
    \/ \E w \in WorkerIds : SendReturn(w)
    \/ ReaderStep
    \/ ListenerStep
    \/ AggStep
    \/ Tick

SpecManyWrite == InitManyWrite /\ [][NextManyWrite]_vars

FairSpecManyWrite == SpecManyWrite /\ WF_vars(GoStep) /\ WF_vars(Tick)

(***************************************************************************)
(* SpecActors: the three operations of a client that can fail, Login,      *)
(* Connect and Send, where the program performs them: the login phase of   *)
(* main followed by ConnectTest, and OneWriteTest and ManyWriteTest called *)
(* after a ConnectTest.  The goroutines that read the websockets (the      *)
(* readers, ExpectData, listenToClients) are started and not run.          *)
(***************************************************************************)

InitActors ==
    \/ Init
    \/ test \in {"OneWriteTest", "ManyWriteTest"} /\ AfterConnectTest

NextActors ==
    \/ \E c \in ClientIds : LoginReturn(c)
    \/ ConnectTestStart
    \/ OneWriteCheck
    \/ OneWriteSend
    \/ ManyWriteStart
    \/ PoolStep
    \/ \E w \in WorkerIds : ConnectReturn(w)
    \/ \E w \in WorkerIds : SendReturn(w)
    \/ \E w \in WorkerIds : AggPoolReport(w)
    \/ AggCheck
    \/ Tick

SpecActors == InitActors /\ [][NextActors]_vars

(***************************************************************************)
(* Properties of the worker pools.                                         *)
(***************************************************************************)

\* The clients whose Connect / Send call is in progress in some worker.
InProgress == {c \in ClientIds : \E w \in WorkerIds : wPc[w] = "op" /\ wClient[w] = c}

\* Every worker of the pool has left its "range toWorker" loop.
WorkersGone == \A w \in WorkerIds : wPc[w] \in {"none", "exited"}

\* The dispatch loop is over and every worker has returned.
PoolQuiescent == poolPc \in {"wait", "done"} /\ WorkersGone

\* Every client of the pool has its report received by the consumer.
AllPoolReports == \A c \in Range(poolClients) : repDur[c] + repErr[c] >= 1

\* C1: in a pool of N clients with parallelism P, 1 <= P <= N, every client's
\* operation is invoked exactly once, every invocation is reported exactly
\* once, as a duration when it succeeded and as an error when it failed, and
\* N reports are delivered in all: no client is skipped or taken twice.
C1_EveryClientExactlyOnce ==
    (kind # "none" /\ 1 <= parallel /\ parallel <= Len(poolClients)) =>
        /\ \A c \in ClientIds :
            /\ opCalls[c] <= 1
            /\ repDur[c] + repErr[c] <= opCalls[c]
            /\ c \notin Range(poolClients) => opCalls[c] = 0
            /\ kind = "connect" /\ repDur[c] > 0 => conn[c] = "ok"
            /\ kind = "connect" /\ repErr[c] > 0 => conn[c] = "failed"
        /\ CountBoth(poolRes) <= Len(poolClients)
        /\ PoolQuiescent =>
            /\ \A c \in Range(poolClients) : opCalls[c] = 1 /\ repDur[c] + repErr[c] = 1
            /\ CountBoth(poolRes) = Len(poolClients)

\* A pool of three clients and two workers has processed all of them, one at
\* least with an error and one with a duration.
C1_Witness ==
    /\ PoolQuiescent
    /\ Len(poolClients) = 3
    /\ parallel = 2
    /\ poolRes.n >= 1
    /\ poolRes.e >= 1
    /\ \A c \in Range(poolClients) : opCalls[c] = 1

\* C2: whenever the flag of a pool or of a listener is true, every report of
\* every client of it has been received and no worker executes an operation
\* or holds an undelivered report.
C2_CompletionAfterDelivery ==
    /\ poolDone =>
        /\ AllPoolReports
        /\ \A w \in WorkerIds : wPc[w] \notin {"op", "report"}
    /\ lisDone =>
        \A c \in Range(clients) : edPc[c] = "done"

\* C3: at most P clients have their Connect / Send call in progress.
C3_BoundedParallelism == Cardinality(InProgress) <= parallel

\* Two workers are both busy while a third client is still queued.
C3_Witness ==
    /\ parallel = 2
    /\ Cardinality(InProgress) = 2
    /\ poolPc = "dispatch"
    /\ nextIdx = Len(poolClients)

\* C4: sendClients over N clients with 1 <= P <= N workers, every Send
\* returning and every report received: when nothing is left to do, the flag
\* is true.
C4_SendFlagSet ==
    (/\ kind = "send"
     /\ 1 <= parallel /\ parallel <= Len(poolClients)
     /\ Running
     /\ ~ENABLED NextPool)
        => poolDone

\* The dispatch loop stands at "toWorker <- client" and no worker exists
\* that could ever receive.
DispatcherBlocked ==
    /\ poolPc = "dispatch"
    /\ nextIdx <= Len(poolClients)
    /\ \A w \in WorkerIds : wPc[w] = "none"

\* C11: a pool started with parallelism 0 and at least one client fails fast:
\* it is never in a state in which the process runs, the dispatcher is blocked
\* handing a client to a worker that does not exist, the flag is false and
\* nothing can happen any more.
C11_ZeroParallelismFailsFast ==
    (kind # "none" /\ parallel = 0 /\ Len(poolClients) >= 1) =>
        ~(Running /\ DispatcherBlocked /\ ~poolDone /\ ~ENABLED NextPool)

\* C12: in a pool with P >= N, connectClients or sendClients, no wg.Done()
\* brings the WaitGroup below zero, no client is processed twice, the flag is
\* true only after all N reports are delivered, and when all workers have
\* left, all N clients are processed and reported and the flag gets true.
C12_FullParallelism ==
    (kind # "none" /\ parallel >= Len(poolClients)) =>
        /\ crashed # "panic"
        /\ \A c \in ClientIds : opCalls[c] <= 1
        /\ poolDone => CountBoth(poolRes) = Len(poolClients)
        /\ WorkersGone /\ Running =>
            /\ \A c \in Range(poolClients) : opCalls[c] = 1
            /\ CountBoth(poolRes) = Len(poolClients)
            /\ poolDone \/ ENABLED PoolWait \/ ENABLED PoolClose

(***************************************************************************)
(* Properties of the listener.                                             *)
(***************************************************************************)

\* The clients of the listener with an established connection.
Connected == {c \in Range(clients) : conn[c] = "ok"}

\* C5 as stated: when the listener's flag is true, the reports received are
\* count for every client that got count messages without error, plus one for
\* every client with an error.
C5_ReportsPerMessage ==
    lisDone =>
        CountBoth(recvRes) =
            count * Cardinality({c \in Connected : edI[c] = count /\ lisErr[c] = 0})
            + Cardinality({c \in Connected : lisErr[c] > 0})

\* C5 as amended: when the listener's flag is true, every connected client
\* has contributed exactly one report, whatever count is: one duration after
\* its count-th message, or one error before it; a client whose connection
\* failed has contributed none.
C5_OneReportPerClient ==
    lisDone =>
        /\ CountBoth(recvRes) = Cardinality(Connected)
        /\ \A c \in Range(clients) :
            /\ lisDur[c] + lisErr[c] = (IF conn[c] = "ok" THEN 1 ELSE 0)
            /\ lisDur[c] = 1 => edI[c] = count
            /\ lisErr[c] = 1 => edI[c] < count

\* A listener with count = 2 over two clients is complete: one client got its
\* two messages, the other an error.
C5_Witness ==
    /\ lisDone
    /\ count = 2
    /\ Len(clients) = 2
    /\ \E c \in Range(clients) : lisDur[c] = 1
    /\ \E c \in Range(clients) : lisErr[c] = 1

(***************************************************************************)
(* Properties of the scenarios.                                            *)
(***************************************************************************)

\* A websocket connection has broken: ReadMessage has returned an error.
WsError == \E c \in ClientIds : rdPc[c] \in {"sendErr", "stuckErr", "exit"}

\* A Connect has failed for good.
ConnectFailed == \E c \in ClientIds : conn[c] = "failed"

\* A Send has not succeeded.
SendFailed ==
    \/ crashed \in {"fatalSend", "fatalToken"}
    \/ \E w \in WorkerIds : kind = "send" /\ wErr[w]
    \/ \E c \in ClientIds : kind = "send" /\ repErr[c] > 0

\* Every client is connected and its reader waits for the next message.
AllConnected == \A c \in Range(clients) : conn[c] = "ok" /\ rdPc[c] = "read"

\* C6: when every login and every Connect succeeds and no connection breaks,
\* ConnectTest returns in the end, with N connect samples and N first-data
\* samples.
C6_ConnectTestCompletes ==
    <>(\/ crashed = "fatalLogin"
       \/ ConnectFailed
       \/ WsError
       \/ /\ test = "ConnectTest"
          /\ aggPc = "returned"
          /\ poolRes.n = Len(clients)
          /\ recvRes.n = Len(clients))

\* OneWriteTest is called after a ConnectTest in which all clients connected,
\* and clients[0] is an admin client.
OneWriteCalled ==
    /\ test = "OneWriteTest"
    /\ aggPc = "start"
    /\ AllConnected
    /\ clients[1] \in admins

\* C7: OneWriteTest, called after a ConnectTest in which all N clients
\* connected, with a succeeding Send of the admin clients[0] and no
\* connection breaking, returns in the end with Count() + ErrCount() = N.
C7_OneWriteTestCompletes ==
    OneWriteCalled ~>
        (\/ SendFailed
         \/ WsError
         \/ /\ test = "OneWriteTest"
            /\ aggPc = "returned"
            /\ CountBoth(recvRes) = Len(clients))

\* The loop of the scenario is running, its pool and/or listener have set
\* their flags, and so every report has been received.
LoopOverdue == aggPc \in {"select", "check"} /\ Finished

\* C8: when the tick channel never fires, the loop of a scenario still ends
\* once the flags of its pool and/or listener are true.
C8_NoTickNeeded == LoopOverdue ~> (aggPc = "returned" \/ ~Running)

\* ManyWriteTest is called after a ConnectTest in which all clients connected,
\* with at least one admin client.
ManyWriteCalled ==
    /\ test = "ManyWriteTest"
    /\ aggPc = "start"
    /\ AllConnected
    /\ admins # {}

\* C9: ManyWriteTest returns only with one report of every writer received,
\* and it does return in the end, whatever ParallelSends >= 1 is, when every
\* Send succeeds and no connection breaks.
C9_ManyWriteTestCompletes ==
    /\ [](test = "ManyWriteTest" /\ aggPc = "returned"
            => CountBoth(poolRes) = Len(poolClients))
    /\ ManyWriteCalled ~>
        (\/ SendFailed
         \/ WsError
         \/ test = "ManyWriteTest" /\ aggPc = "returned")

(***************************************************************************)
(* Properties of failing logins, connects and sends.                       *)
(***************************************************************************)

\* A pool of the running scenario: connectClients of ConnectTest or
\* sendClients of ManyWriteTest.
ScenarioPool ==
    \/ test = "ConnectTest" /\ kind = "connect"
    \/ test = "ManyWriteTest" /\ kind = "send"

\* No sample and no error has been added to a TestResult.
NothingRecorded == CountBoth(poolRes) = 0 /\ CountBoth(recvRes) = 0

\* C10 as stated: no failing login, connect or send ends the process.
C10_NoFailureAborts ==
    crashed \notin {"fatalLogin", "fatalSend", "fatalToken", "fatalAdmin", "fatalNoAdmin"}

\* C10 as amended: a failing Connect, and an error returned by a Send of
\* sendClients, is recorded as one error sample of the pool's TestResult and
\* does not end the process, and the pool goes on to process all its other
\* clients.  A failing login is recorded nowhere and ends the process before
\* any scenario starts; an error of the Send of OneWriteTest, and a Send
\* without CSRF token, end the process unrecorded; and so does the scenario
\* that, after failed connects, finds clients[0] (OneWriteTest) or every
\* admin client (ManyWriteTest) not connected.
C10_FailuresRecordedOrFatal ==
    /\ test # "main" => logged = Range(clients)
    /\ crashed = "fatalLogin" =>
        test = "main" /\ logged # Range(clients) /\ NothingRecorded
    /\ test = "ConnectTest" => Running
    /\ ScenarioPool =>
        /\ crashed \in {"no", "panic", "fatalToken"}
        /\ poolRes.e = Cardinality({c \in ClientIds : repErr[c] = 1})
        /\ poolRes.n = Cardinality({c \in ClientIds : repDur[c] = 1})
        /\ \A c \in ClientIds :
            /\ repDur[c] + repErr[c] <= 1
            /\ kind = "connect" /\ conn[c] = "failed" /\ c \notin InProgress =>
                  repErr[c] = 1 \/ \E w \in WorkerIds : wPc[w] = "report" /\ wClient[w] = c /\ wErr[w]
        /\ PoolQuiescent /\ crashed # "fatalToken" =>
            \A c \in Range(poolClients) : opCalls[c] = 1 /\ repDur[c] + repErr[c] = 1
    /\ crashed = "fatalToken" => kind = "send" \/ test = "OneWriteTest"
    /\ crashed = "fatalSend" =>
        /\ test = "OneWriteTest"
        /\ aggPc = "send"
        /\ NothingRecorded
    /\ test = "OneWriteTest" /\ aggPc \in {"select", "check", "returned"} =>
        Running /\ opCalls[clients[1]] = 1
    /\ crashed = "fatalAdmin" =>
        test = "OneWriteTest" /\ ~ConnectedAdmin(clients[1]) /\ NothingRecorded
    /\ crashed = "fatalNoAdmin" =>
        test = "ManyWriteTest" /\ Len(ConnectedAdmins) = 0 /\ NothingRecorded

\* connectClients has processed two clients in ConnectTest: the Connect of the
\* first has failed and is recorded as an error, the second has connected
\* after it, and the process runs.
C10_Witness ==
    /\ test = "ConnectTest"
    /\ Len(clients) = 2
    /\ PoolQuiescent
    /\ conn[1] = "failed"
    /\ conn[2] = "ok"
    /\ repErr[1] = 1
    /\ repDur[2] = 1
    /\ poolRes = [n |-> 1, e |-> 1]
    /\ Running

(***************************************************************************)
(* Properties of OneWriteTest's precondition.                              *)
(***************************************************************************)

\* Client c is an admin client with an established connection.
AdminOnline(c) == c \in admins /\ conn[c] = "ok"

\* No listener has been started since ConnectTest returned, and no Send has
\* been called.
NothingStarted ==
    /\ lisPc = "done"
    /\ \A c \in ClientIds : edPc[c] \in {"none", "done"}
    /\ \A c \in ClientIds : opCalls[c] = 0

\* C13: OneWriteTest on clients of which none is a connected admin client
\* sends no write, starts no listener and returns no result: its next step is
\* the fatal error.
C13_NoAdminIsFatal ==
    (test = "OneWriteTest" /\ \A c \in Range(clients) : ~AdminOnline(c)) =>
        /\ aggPc = "start"
        /\ NothingStarted
        /\ NothingRecorded
        /\ crashed \in {"no", "fatalAdmin"}
        /\ Running => ENABLED OneWriteCheck

\* OneWriteTest has ended fatally on two clients, an admin client whose
\* Connect failed and a connected regular client.
C13_Witness ==
    /\ test = "OneWriteTest"
    /\ crashed = "fatalAdmin"
    /\ Len(clients) = 2
    /\ admins = {1}
    /\ conn[1] = "failed"
    /\ conn[2] = "ok"

\* C14 as stated: whenever some client is a connected admin client,
\* OneWriteTest does not end with the precondition error.
C14_AnyConnectedAdmin ==
    (test = "OneWriteTest" /\ \E c \in Range(clients) : AdminOnline(c)) =>
        crashed # "fatalAdmin"

\* C14 as amended: the precondition is that clients[0] is a connected admin
\* client.  Whenever it is, OneWriteTest does not end with the precondition
\* error and calls Send once, on clients[0] and on no other client; whenever
\* it is not, OneWriteTest does not get past the precondition.
C14_FirstClientAdmin ==
    test = "OneWriteTest" =>
        /\ AdminOnline(clients[1]) => crashed # "fatalAdmin"
        /\ ~AdminOnline(clients[1]) => aggPc = "start" /\ NothingStarted
        /\ \A c \in ClientIds : opCalls[c] > 0 => c = clients[1] /\ opCalls[c] = 1
        /\ aggPc \in {"select", "check", "returned"} => opCalls[clients[1]] = 1

\* OneWriteTest on two admin clients, both connected, is in its loop after
\* one Send on the first.
C14_Witness ==
    /\ test = "OneWriteTest"
    /\ aggPc = "select"
    /\ Len(clients) = 2
    /\ admins = {1, 2}
    /\ AdminOnline(1) /\ AdminOnline(2)
    /\ opCalls[1] = 1
    /\ opCalls[2] = 0


(***************************************************************************)
(* SpecChannels: callers of client.SetChannels and client.ClearChannels on *)
(* up to MaxClients clients, in any order, each SetChannels call with a    *)
(* pair of channels made for it (ExpectData makes readChan and errChan     *)
(* before it calls SetChannels).                                           *)
(***************************************************************************)

InitChannels ==
    /\ test = "channels"
    /\ \E n \in 1..MaxClients : clients = Upto(n)
    /\ admins = {}
    /\ NoPool
    /\ NewClients
    /\ NoListener
    /\ aggPc = "idle"
    /\ logged = {}
    /\ poolRes = EmptyResult
    /\ recvRes = EmptyResult
    /\ crashed = "no"
    /\ NoHistory
    /\ NoRetry
    /\ NoAppend
    /\ NoStats
    /\ NoExt
    /\ NoHashes

\* A caller makes two channels and calls c.SetChannels with them.
CallSetChannels(c) ==
    /\ Running
    /\ test = "channels"
    /\ c \in Range(clients)
    /\ chanId <= MaxSets
    /\ SetChannels(c, chanId)
    /\ chanId' = chanId + 1
    /\ UNCHANGED <<cfgVars, retryVars, appendVars, statVars, extVars, hashVars, poolVars, conn, rdPc, rdChan, inbox,
                   lisPc, lisGot, lisDone, count, edPc, edI, edChan, sinceSet,
                   aggVars, histPool, histLis>>

\* A caller calls c.ClearChannels.
CallClearChannels(c) ==
    /\ Running
    /\ test = "channels"
    /\ c \in Range(clients)
    /\ ClearChannels(c)
    /\ UNCHANGED <<cfgVars, retryVars, appendVars, statVars, extVars, hashVars, poolVars, conn, rdPc, rdChan, inbox, lisVars,
                   aggVars, crashed, histPool, histLis>>

NextChannels ==
    \/ \E c \in ClientIds : CallSetChannels(c)
    \/ \E c \in ClientIds : CallClearChannels(c)

SpecChannels == InitChannels /\ [][NextChannels]_vars

(***************************************************************************)
(* Properties of SetChannels and ClearChannels.                            *)
(***************************************************************************)

\* A listener is attached to client c.
ChannelsSet(c) == wsRead[c] # Nil \/ wsError[c] # Nil

\* C15: at most one listener is attached to a client at a time.  A
\* SetChannels call on a client with a channel set is fatal and leaves the
\* channels of every client as they are; a SetChannels call on a client with
\* no channel set attaches the new pair and is not fatal; ClearChannels leaves
\* no channel set; and no step replaces a set channel by another one.
C15_OneListenerAtATime ==
    [][\A c \in ClientIds :
        /\ (ChannelsSet(c) /\ CallSetChannels(c)) =>
               crashed' = "fatalChannels" /\ wsRead' = wsRead /\ wsError' = wsError
        /\ (~ChannelsSet(c) /\ CallSetChannels(c)) =>
               crashed' = "no" /\ wsRead'[c] = chanId /\ wsError'[c] = chanId
        /\ CallClearChannels(c) => ~ChannelsSet(c)'
        /\ (wsRead[c] # Nil /\ wsRead'[c] # wsRead[c]) => wsRead'[c] = Nil
        /\ (wsError[c] # Nil /\ wsError'[c] # wsError[c]) => wsError'[c] = Nil
    ]_vars

\* The one client had its channels set, cleared and set again (the second
\* pair is attached), and a further SetChannels call was fatal.
C15_Witness ==
    /\ test = "channels"
    /\ Len(clients) = 1
    /\ crashed = "fatalChannels"
    /\ wsRead[1] = 2
    /\ wsError[1] = 2
    /\ chanId = 4

(***************************************************************************)
(* SpecReports: the runs of SpecPool and those of SpecListen, that is the  *)
(* result of a connect or send phase and the result of a receive phase,    *)
(* each filled by the consumer of the phase's two channels.                *)
(***************************************************************************)

InitReports == InitPool \/ InitListen

\* A step of a run of SpecPool.
PoolRun == test = "pool" /\ NextPool

\* A step of a run of SpecListen.
ListenRun == test = "listen" /\ NextListen

NextReports == PoolRun \/ ListenRun

SpecReports == InitReports /\ [][NextReports]_vars

(***************************************************************************)
(* Properties of the results.                                              *)
(***************************************************************************)

\* Result t has become result u without losing a sample or an error.
Grown(t, u) == u.n >= t.n /\ u.e >= t.e

\* C16: Count() + ErrCount() of the result of a connect or send phase never
\* exceeds the number of clients of that phase (the writers of a send
\* phase), that of the result of a receive phase never exceeds the number
\* of clients, and no step makes Count() or ErrCount() of a result smaller.
C16_ResultsBoundedAndGrowing ==
    /\ [](CountBoth(poolRes) <= Len(poolClients) /\ CountBoth(recvRes) <= Len(clients))
    /\ [][Grown(poolRes, poolRes') /\ Grown(recvRes, recvRes')]_vars

\* Three writers have all been reported, with samples and errors.
C16_Witness ==
    /\ test = "pool"
    /\ kind = "send"
    /\ Len(poolClients) = 3
    /\ CountBoth(poolRes) = 3
    /\ poolRes.n > 0
    /\ poolRes.e > 0

(***************************************************************************)
(* SpecRetry: client.Login and client.Connect, one call of one of them per *)
(* client, against a server that answers each request in any of the ways   *)
(* the function tells apart.                                               *)
(***************************************************************************)

\* How httpClient.Post ends in Login: an error, or a response with a status
\* 5xx, 200, or another one.
PostOutcomes == {"postErr", "5xx", "200", "other"}

\* How dialer.Dial ends in Connect: no error, ErrBadHandshake with status
\* 503, or another error.
DialOutcomes == {"ok", "503", "error"}

\* Where Login stands after a Post that ended with r, n being
\* loginErrorCount after it.
LoginAfter(r, n) ==
    CASE r = "postErr" -> "err"
      [] r = "200" -> "nil"
      [] r = "other" -> "err"
      [] r = "5xx" -> IF n < MaxLoginAttemts THEN "loop" ELSE "err"

\* Where Connect stands after a Dial that ended with r, n being
\* loginErrorCount after it.
ConnectAfter(r, n) ==
    CASE r = "ok" -> "nil"
      [] r = "503" -> IF n < MaxConnectionAttemts THEN "loop" ELSE "err"
      [] r = "error" -> IF n < MaxConnectionAttemts THEN "loop" ELSE "err"

InitRetry ==
    /\ test = "retry"
    /\ \E n \in 1..ScnClients : clients = Upto(n)
    /\ admins = {}
    /\ NoPool
    /\ NewClients
    /\ NoListener
    /\ aggPc = "idle"
    /\ logged = {}
    /\ poolRes = EmptyResult
    /\ recvRes = EmptyResult
    /\ crashed = "no"
    /\ NoHistory
    /\ rtOp \in [ClientIds -> {"none", "Login", "Connect"}]
    /\ \A c \in ClientIds : rtOp[c] = "none" <=> c \notin Range(clients)
    /\ rtPc = [c \in ClientIds |-> IF c \in Range(clients) THEN "loop" ELSE "idle"]
    /\ loginErrorCount = [c \in ClientIds |-> 0]
    /\ tries = [c \in ClientIds |-> 0]
    /\ overload = [c \in ClientIds |-> 0]
    /\ NoHashes
    /\ NoAppend
    /\ NoStats
    /\ NoExt

\* One pass of the loop of c.Login(): the Post, and what follows its answer.
LoginAttempt(c) ==
    /\ Running
    /\ test = "retry"
    /\ rtOp[c] = "Login"
    /\ rtPc[c] = "loop"
    /\ tries[c] < MaxTries
    /\ \E r \in PostOutcomes :
        LET n == IF r = "5xx" THEN loginErrorCount[c] + 1 ELSE loginErrorCount[c] IN
        /\ loginErrorCount' = [loginErrorCount EXCEPT ![c] = n]
        /\ rtPc' = [rtPc EXCEPT ![c] = LoginAfter(r, n)]
        /\ overload' = [overload EXCEPT ![c] = IF r = "5xx" THEN @ + 1 ELSE @]
    /\ tries' = [tries EXCEPT ![c] = @ + 1]
    /\ UNCHANGED <<cfgVars, extVars, poolVars, clientVars, lisVars, aggVars, crashed,
                   histPool, histLis, rtOp, hashVars, appendVars, statVars>>

\* One pass of the loop of c.Connect(): the Dial, and what follows its
\* answer.  Only an error other than the bad handshake with status 503 is
\* counted.  When Connect returns nil it has started the reader goroutine,
\* and the server answers the new connection with the first data.
ConnectAttempt(c) ==
    /\ Running
    /\ test = "retry"
    /\ rtOp[c] = "Connect"
    /\ rtPc[c] = "loop"
    /\ tries[c] < MaxTries
    /\ \E r \in DialOutcomes :
        LET n == IF r = "error" THEN loginErrorCount[c] + 1 ELSE loginErrorCount[c]
            to == ConnectAfter(r, n) IN
        /\ loginErrorCount' = [loginErrorCount EXCEPT ![c] = n]
        /\ rtPc' = [rtPc EXCEPT ![c] = to]
        /\ overload' = [overload EXCEPT ![c] = IF r = "503" THEN @ + 1 ELSE @]
        /\ conn' = [conn EXCEPT ![c] = IF to = "nil" THEN "ok"
                                       ELSE IF to = "err" THEN "failed" ELSE @]
        /\ rdPc' = [rdPc EXCEPT ![c] = IF to = "nil" THEN "read" ELSE @]
        /\ inbox' = [inbox EXCEPT ![c] = IF to = "nil" THEN @ + 1 ELSE @]
    /\ tries' = [tries EXCEPT ![c] = @ + 1]
    /\ UNCHANGED <<cfgVars, extVars, poolVars, wsRead, wsError, rdChan, lisVars, aggVars, crashed,
                   histPool, histLis, rtOp, hashVars, appendVars, statVars>>

NextRetry ==
    \/ \E c \in ClientIds : LoginAttempt(c)
    \/ \E c \in ClientIds : ConnectAttempt(c)

SpecRetry == InitRetry /\ [][NextRetry]_vars

(***************************************************************************)
(* Properties of Login and Connect.                                        *)
(***************************************************************************)

\* The number of attempts after which the function called for client c is to
\* give up.
AttemptLimit(c) == IF rtOp[c] = "Login" THEN MaxLoginAttemts ELSE MaxConnectionAttemts

\* The server has answered every request of client c's call with the
\* overload failure (5xx for Login, bad handshake with 503 for Connect).
OnlyOverload(c) == overload[c] = tries[c]

\* C17: when the server keeps answering with the overload failure, Login and
\* Connect make at most MaxLoginAttemts / MaxConnectionAttemts attempts, and
\* after that many they have returned an error.
C17_BoundedRetries ==
    \A c \in Range(clients) :
        (test = "retry" /\ OnlyOverload(c)) =>
            /\ tries[c] <= AttemptLimit(c)
            /\ tries[c] = AttemptLimit(c) => rtPc[c] = "err"

(***************************************************************************)
(* SpecExpect: ExpectData with any expected hash, started for each of up   *)
(* to ExpClients connected clients by a listener as listenToClients is     *)
(* one, the readers of the clients, a server that sends each client up to  *)
(* count messages of any data, and a consumer that keeps receiving on both *)
(* channels.  With one client count is any number up to MaxCount, with     *)
(* more clients it is 1.                                                   *)
(***************************************************************************)

\* The data of a message.
Payloads == 1..MaxData

\* The sequences of at most n data.
PayloadSeqs(n) == UNION {[1..k -> Payloads] : k \in 0..n}

\* ExpectData treats all clients alike: of the initial states that differ
\* only by a permutation of the clients one is taken.
ExpectOrder(c, d) ==
    \/ Len(payloads[c]) > Len(payloads[d])
    \/ /\ Len(payloads[c]) = Len(payloads[d])
       /\ \A i \in 1..Len(payloads[c]) :
            (\A j \in 1..(i - 1) : payloads[c][j] = payloads[d][j]) =>
                payloads[c][i] >= payloads[d][i]

InitExpect ==
    /\ test = "expect"
    /\ \E n \in 1..ExpClients : clients = Upto(n)
    /\ admins = {}
    /\ NoPool
    /\ conn = [c \in ClientIds |-> IF c \in Range(clients) THEN "ok" ELSE "none"]
    /\ wsRead = [c \in ClientIds |-> Nil]
    /\ wsError = [c \in ClientIds |-> Nil]
    /\ rdPc = [c \in ClientIds |-> IF c \in Range(clients) THEN "read" ELSE "off"]
    /\ rdChan = [c \in ClientIds |-> Nil]
    /\ count \in 1..MaxCount
    /\ Len(clients) > 1 => count = 1
    /\ expect \in {0} \cup {hashData(data) : data \in Payloads}
    /\ \E f \in [Range(clients) -> PayloadSeqs(count)] :
        payloads = [c \in ClientIds |-> IF c \in Range(clients) THEN f[c] ELSE <<>>]
    /\ \A c, d \in Range(clients) : c < d => ExpectOrder(c, d)
    /\ inbox = [c \in ClientIds |-> Len(payloads[c])]
    /\ rdMsg = [c \in ClientIds |-> NoData]
    /\ edData = [c \in ClientIds |-> <<>>]
    /\ firstHash = 0
    /\ hashSeen = <<>>
    /\ lisPc = "collect"
    /\ lisGot = 0
    /\ lisDone = FALSE
    /\ sinceSet = "nil"
    /\ edPc = [c \in ClientIds |-> IF c \in Range(clients) THEN "wait" ELSE "none"]
    /\ edI = [c \in ClientIds |-> 0]
    /\ edChan = [c \in ClientIds |-> Nil]
    /\ chanId = 1
    /\ aggPc = "idle"
    /\ logged = {}
    /\ poolRes = EmptyResult
    /\ recvRes = EmptyResult
    /\ crashed = "no"
    /\ NoHistory
    /\ NoRetry
    /\ NoAppend
    /\ NoStats
    /\ NoExt

\* The consumer of the two channels receives the report of client c.
ExpectReport(c) ==
    /\ Running
    /\ test = "expect"
    /\ EDReportTaken(c)
    /\ UNCHANGED <<cfgVars, retryVars, appendVars, statVars, runVars, signalVars, reuseVars, since, edStart, sinceAtClose, hashVars, poolVars, conn, rdPc, rdChan, inbox,
                   lisPc, lisGot, lisDone, count, edI, edChan, sinceSet, chanId,
                   aggPc, logged, poolRes, crashed, histPool>>

NextExpect ==
    \/ ReaderStep
    \/ \E c \in ClientIds : EDConnected(c)
    \/ \E c \in ClientIds : EDRecvData(c)
    \/ \E c \in ClientIds : EDRecvErr(c)
    \/ \E c \in ClientIds : ListenerRecvFinish(c)
    \/ \E c \in ClientIds : ExpectReport(c)

SpecExpect == InitExpect /\ [][NextExpect]_vars

(***************************************************************************)
(* Properties of the checksum verification in ExpectData.                  *)
(***************************************************************************)

\* ExpectData of client c has received data whose hash is not expect.
HashBad(c) == \E i \in 1..Len(edData[c]) : hashData(edData[c][i]) # expect

\* ExpectData of client c has received an error of the connection.
WsErrorSeen(c) == rdPc[c] = "exit"

\* The report of ExpectData of client c has been received.
Reported(c) == edPc[c] \in {"finish", "done"}

\* The clients that have received data of another hash.
BadClients == {c \in Range(clients) : HashBad(c)}

DataHashSent(c) == hashData(Head(payloads[c]))

InitHash ==
    /\ test = "hash"
    /\ \E n \in 1..ExpClients : clients = Upto(n)
    /\ admins = {}
    /\ NoPool
    /\ ConnectedClients(Range(clients))
    /\ NoListener
    /\ aggPc = "select"
    /\ logged = {}
    /\ poolRes = EmptyResult
    /\ recvRes = EmptyResult
    /\ crashed = "no"
    /\ NoHistory
    /\ NoRetry
    /\ NoAppend
    /\ NoStats
    /\ NoExt
    /\ expect = 0
    /\ \E f \in [Range(clients) -> PayloadSeqs(MaxCount)] :
        payloads = [c \in ClientIds |-> IF c \in Range(clients) THEN f[c] ELSE <<>>]
    /\ rdMsg = [c \in ClientIds |-> NoData]
    /\ edData = [c \in ClientIds |-> <<>>]
    /\ firstHash = 0
    /\ hashSeen = <<>>

\* "case value := <-dataHash" of the scenario's loop meets the send of the
\* listener of client c.  The case begins with "break", which leaves the
\* select: the comparison with firstHash that follows it is never executed.
AggDataHash(c) ==
    /\ Running
    /\ test = "hash"
    /\ aggPc = "select"
    /\ payloads[c] # <<>>
    /\ hashSeen' = Append(hashSeen, DataHashSent(c))
    /\ payloads' = [payloads EXCEPT ![c] = Tail(@)]
    /\ UNCHANGED <<cfgVars, retryVars, appendVars, statVars, extVars, expect, rdMsg, edData, firstHash, poolVars,
                   clientVars, lisVars, aggVars, crashed, histPool, histLis>>

NextHash == \E c \in ClientIds : AggDataHash(c)

SpecHash == InitHash /\ [][NextHash]_vars

(***************************************************************************)
(* Properties of the data-integrity check of the scenarios.                *)
(***************************************************************************)

\* The values received on dataHash that differ from the first one.
DifferentHashes == {i \in 2..Len(hashSeen) : hashSeen[i] # hashSeen[1]}

\* C19: every value received on dataHash that differs from the first one
\* received in the run has added one error to the receive result, and
\* firstHash is the first value received, set once.
C19_HashErrorsRecorded ==
    test = "hash" =>
        /\ recvRes.e = Cardinality(DifferentHashes)
        /\ hashSeen # <<>> => firstHash = hashSeen[1]

(***************************************************************************)
(* SpecAppend: up to MaxClients goroutines that each call Add or AddError  *)
(* once on one TestResult.  "t.values = append(t.values, value)" reads     *)
(* the slice and then assigns the longer one to the field, with no lock:   *)
(* the calls of different goroutines interleave between the two.           *)
(***************************************************************************)

\* The goroutines of the specification.
Callers == {g \in ClientIds : apKind[g] # "none"}

InitAppend ==
    /\ test = "append"
    /\ \E n \in 1..MaxClients : clients = Upto(n)
    /\ admins = {}
    /\ NoPool
    /\ NewClients
    /\ NoListener
    /\ aggPc = "idle"
    /\ logged = {}
    /\ poolRes = EmptyResult
    /\ recvRes = EmptyResult
    /\ crashed = "no"
    /\ NoHistory
    /\ NoRetry
    /\ NoHashes
    /\ \E f \in [Range(clients) -> {"Add", "AddError"}] :
        apKind = [g \in ClientIds |-> IF g \in Range(clients) THEN f[g] ELSE "none"]
    /\ apPc = [g \in ClientIds |-> IF g \in Range(clients) THEN "call" ELSE "idle"]
    /\ apLen = [g \in ClientIds |-> 0]
    /\ NoStats
    /\ NoExt

\* Goroutine g evaluates append(t.values, value) or append(t.errors, err): it
\* reads the slice of the field.
AppendLoad(g) ==
    /\ Running
    /\ test = "append"
    /\ apPc[g] = "call"
    /\ apLen' = [apLen EXCEPT ![g] = IF apKind[g] = "Add" THEN recvRes.n ELSE recvRes.e]
    /\ apPc' = [apPc EXCEPT ![g] = "loaded"]
    /\ UNCHANGED <<cfgVars, extVars, retryVars, hashVars, poolVars, clientVars, lisVars, aggVars,
                   crashed, histPool, histLis, apKind, statVars>>

\* Goroutine g assigns the slice that append returned, one longer than the
\* slice it read, to the field.
AppendStore(g) ==
    /\ Running
    /\ test = "append"
    /\ apPc[g] = "loaded"
    /\ recvRes' = IF apKind[g] = "Add" THEN [recvRes EXCEPT !.n = apLen[g] + 1]
                                       ELSE [recvRes EXCEPT !.e = apLen[g] + 1]
    /\ apPc' = [apPc EXCEPT ![g] = "done"]
    /\ UNCHANGED <<cfgVars, extVars, retryVars, hashVars, poolVars, clientVars, lisVars,
                   aggPc, logged, poolRes, crashed, histPool, histLis, apKind, apLen, statVars>>

NextAppend ==
    \/ \E g \in ClientIds : AppendLoad(g)
    \/ \E g \in ClientIds : AppendStore(g)

SpecAppend == InitAppend /\ [][NextAppend]_vars

(***************************************************************************)
(* Properties of concurrent calls of Add and AddError.                     *)
(***************************************************************************)

\* C20: when the concurrent calls of Add and AddError on a TestResult have
\* all returned, Count() is the number of Add calls and ErrCount() the
\* number of AddError calls.
C20_NoLostUpdate ==
    (test = "append" /\ \A g \in Callers : apPc[g] = "done") =>
        /\ recvRes.n = Cardinality({g \in Callers : apKind[g] = "Add"})
        /\ recvRes.e = Cardinality({g \in Callers : apKind[g] = "AddError"})

(***************************************************************************)
(* SpecStats: one TestResult, to which Add appends up to MaxSamples        *)
(* durations, and on which min, max and ave are called at any time.        *)
(***************************************************************************)

Durations == {d * DurStep : d \in 0..MaxDur}

\* t.min(): the loop over t.values, m being the result so far and i the index
\* of the next sample.
RECURSIVE minLoop(_, _, _)
minLoop(vs, i, m) ==
    IF i > Len(vs) THEN m
    ELSE IF i = 1 THEN minLoop(vs, i + 1, vs[i])
    ELSE IF vs[i] < m THEN minLoop(vs, i + 1, vs[i])
    ELSE minLoop(vs, i + 1, m)

min_FromZero(vs) == minLoop(<<0>> \o vs, 1, 0)
min(vs) == minLoop(vs, 1, 0)

\* t.max().
RECURSIVE maxLoop(_, _, _)
maxLoop(vs, i, m) ==
    IF i > Len(vs) THEN m
    ELSE IF vs[i] > m THEN maxLoop(vs, i + 1, vs[i])
    ELSE maxLoop(vs, i + 1, m)

max(vs) == maxLoop(vs, 1, 0)

\* t.ave(): the sum a of the samples, then 0 for no samples and else the
\* integer quotient.
RECURSIVE sumLoop(_, _, _)
sumLoop(vs, i, a) ==
    IF i > Len(vs) THEN a ELSE sumLoop(vs, i + 1, a + vs[i])

ave(vs) == IF Len(vs) = 0 THEN 0 ELSE sumLoop(vs, 1, 0) \div Len(vs)

InitStats ==
    /\ test = "stats"
    /\ clients = <<>>
    /\ admins = {}
    /\ NoPool
    /\ NewClients
    /\ NoListener
    /\ aggPc = "idle"
    /\ logged = {}
    /\ poolRes = EmptyResult
    /\ recvRes = EmptyResult
    /\ crashed = "no"
    /\ NoHistory
    /\ NoRetry
    /\ NoHashes
    /\ NoAppend
    /\ NoStats
    /\ NoExt

\* t.Add(value).
StatsAdd(value) ==
    /\ test = "stats"
    /\ Len(values) < MaxSamples
    /\ values' = Append(values, value)
    /\ UNCHANGED <<cfgVars, extVars, retryVars, hashVars, appendVars, poolVars, clientVars, lisVars,
                   aggVars, crashed, histPool, histLis, statMin, statMax, statAve>>

\* A call of t.min(), t.max() or t.ave() (each is called by String()).
CallMin ==
    /\ test = "stats"
    /\ statMin' = [of |-> values, ret |-> min(values)]
    /\ UNCHANGED <<cfgVars, extVars, retryVars, hashVars, appendVars, poolVars, clientVars, lisVars,
                   aggVars, crashed, histPool, histLis, values, statMax, statAve>>

CallMax ==
    /\ test = "stats"
    /\ statMax' = [of |-> values, ret |-> max(values)]
    /\ UNCHANGED <<cfgVars, extVars, retryVars, hashVars, appendVars, poolVars, clientVars, lisVars,
                   aggVars, crashed, histPool, histLis, values, statMin, statAve>>

CallAve ==
    /\ test = "stats"
    /\ statAve' = [of |-> values, ret |-> ave(values)]
    /\ UNCHANGED <<cfgVars, extVars, retryVars, hashVars, appendVars, poolVars, clientVars, lisVars,
                   aggVars, crashed, histPool, histLis, values, statMin, statMax>>

NextStats ==
    \/ \E value \in Durations : StatsAdd(value)
    \/ CallMin
    \/ CallMax
    \/ CallAve

SpecStats == InitStats /\ [][NextStats]_vars

(***************************************************************************)
(* Properties of the statistics of a TestResult.                           *)
(***************************************************************************)

\* The smallest and the largest of the samples vs, and their sum.
Smallest(vs) == CHOOSE m \in Range(vs) : \A v \in Range(vs) : m <= v
Largest(vs) == CHOOSE m \in Range(vs) : \A v \in Range(vs) : m >= v
RECURSIVE Total(_)
Total(vs) == IF vs = <<>> THEN 0 ELSE Head(vs) + Total(Tail(vs))

\* What min, max and ave are to return for the samples vs.
StatsOf(vs) ==
    IF vs = <<>> THEN [min |-> 0, max |-> 0, ave |-> 0]
    ELSE [min |-> Smallest(vs), max |-> Largest(vs),
          ave |-> CHOOSE q \in 0..Total(vs) :
                      q * Len(vs) <= Total(vs) /\ Total(vs) < (q + 1) * Len(vs)]

\* C21: every call of min, max and ave returns 0 for no samples, and else
\* the smallest sample, the largest sample and the integer quotient of the
\* sum of the samples by their number, of the samples the TestResult holds at
\* the time of the call.
C21_Statistics ==
    /\ statMin.ret = StatsOf(statMin.of).min
    /\ statMax.ret = StatsOf(statMax.of).max
    /\ statAve.ret = StatsOf(statAve.of).ave

\* The samples are 10, 20 and 30, and the calls have returned 10, 30 and 20.
C21_Witness ==
    /\ test = "stats"
    /\ values = <<10, 20, 30>>
    /\ statMin = [of |-> values, ret |-> 10]
    /\ statMax = [of |-> values, ret |-> 30]
    /\ statAve = [of |-> values, ret |-> 20]

(***************************************************************************)
(* Properties of ExpectData after an error of the connection.              *)
(***************************************************************************)

\* C22: a client whose ExpectData has received an error on its error channel
\* has had fewer than count messages; ExpectData is at its error report or
\* past it and receives nothing more; the client has no duration reported
\* and at most the one error; once the error is reported the client's
\* channels are cleared and its finish signal can be taken by the listener,
\* whatever number of messages is still on the way to the client.
C22_ErrorShortCircuits ==
    \A c \in Range(clients) :
        WsErrorSeen(c) =>
            /\ edI[c] < count
            /\ edPc[c] \in {"reportErr", "finish", "done"}
            /\ lisDur[c] = 0
            /\ lisErr[c] = (IF Reported(c) THEN 1 ELSE 0)
            /\ Reported(c) => wsRead[c] = Nil /\ wsError[c] = Nil
            /\ (edPc[c] = "finish" /\ Running) => ENABLED ListenerRecvFinish(c)
            /\ lisPc = "done" => edPc[c] = "done"

\* The listener with count = 2 is done although the one client has had one
\* message only: its connection delivered an error then.
C22_Witness ==
    /\ test = "listen"
    /\ lisDone
    /\ count = 2
    /\ Len(clients) = 1
    /\ WsErrorSeen(1)
    /\ edI[1] = 1
    /\ lisErr[1] = 1
    /\ lisDur[1] = 0
    /\ recvRes = [n |-> 0, e |-> 1]

(***************************************************************************)
(* SpecRunTests: RunTests on a list of scenarios.  A scenario is its call  *)
(* and its return, or the log.Fatalf that ends the process in it.          *)
(***************************************************************************)

Scenarios == {"ConnectTest", "OneWriteTest", "ManyWriteTest"}

\* The descriptions of the TestResults a scenario returns, in their order.
Descriptions(scn) ==
    CASE scn = "ConnectTest" ->
            <<"Time to established connection",
              "Time until data have been reveiced">>
      [] scn = "OneWriteTest" ->
            <<"Time until responce for one write request">>
      [] scn = "ManyWriteTest" ->
            <<"Time until all requests have been sended",
              "Time until all responses have been received">>

\* The slices a scenario can return: its TestResults with the numbers of
\* samples its loop has added to them.
ResultsOf(scn) ==
    {[k \in 1..Len(Descriptions(scn)) |->
         [description |-> Descriptions(scn)[k], n |-> f[k]]] :
       f \in [1..Len(Descriptions(scn)) -> 0..1]}

\* The log.Fatalf calls of a scenario.
FatalsOf(scn) ==
    CASE scn = "ConnectTest" -> {}
      [] scn = "OneWriteTest" -> {"fatalAdmin", "fatalSend"}
      [] scn = "ManyWriteTest" -> {"fatalNoAdmin"}

\* "append(r, elems...)".
append_Front(s, elems) == elems \o s
append(s, elems) == s \o elems

\* All sequences of scenarios of length up to n.
RECURSIVE TestLists(_)
TestLists(n) ==
    IF n = 0 THEN {<<>>}
    ELSE TestLists(n - 1) \cup
         {Append(t, scn) : t \in {u \in TestLists(n - 1) : Len(u) = n - 1},
                           scn \in Scenarios}

\* RunTests(clients, tests) is called.
InitRunTests ==
    /\ test = "run"
    /\ \E n \in 1..ScnClients : clients = Upto(n)
    /\ \E a \in 0..1 : admins = 1..a
    /\ NoPool
    /\ NewClients
    /\ NoListener
    /\ aggPc = "idle"
    /\ logged = Range(clients)
    /\ poolRes = EmptyResult
    /\ recvRes = EmptyResult
    /\ crashed = "no"
    /\ NoHistory
    /\ NoRetry
    /\ NoAppend
    /\ NoStats
    /\ NoHashes
    /\ arrived = [c \in ClientIds |-> 0]
    /\ NoSince
    /\ NoSignals
    /\ tests \in TestLists(MaxTests)
    /\ runPc = "range"
    /\ runIdx = 1
    /\ runR = <<>>
    /\ scnPc = [i \in 1..Len(tests) |-> "none"]
    /\ scnArg = [i \in 1..Len(tests) |-> <<>>]
    /\ scnRet = [i \in 1..Len(tests) |-> <<>>]

\* "for _, test := range tests" takes the next scenario and "test(clients)"
\* calls it.
RunCall ==
    /\ Running
    /\ runPc = "range"
    /\ runIdx <= Len(tests)
    /\ scnPc' = [scnPc EXCEPT ![runIdx] = "active"]
    /\ scnArg' = [scnArg EXCEPT ![runIdx] = clients]
    /\ runPc' = "call"
    /\ UNCHANGED <<cfgVars, poolVars, clientVars, lisVars, aggVars, crashed,
                   histPool, histLis, retryVars, hashVars, appendVars, statVars,
                   reuseVars, sinceVars, signalVars, tests, runIdx, runR, scnRet>>

\* The scenario at position i returns its results, and "r = append(r, ...)"
\* of RunTests, which was waiting in that call, takes them.
ScenarioReturn(i) ==
    /\ Running
    /\ i \in 1..Len(tests)
    /\ scnPc[i] = "active"
    /\ \E res \in ResultsOf(tests[i]) :
        /\ scnRet' = [scnRet EXCEPT ![i] = res]
        /\ runR' = append(runR, res)
    /\ scnPc' = [scnPc EXCEPT ![i] = "returned"]
    /\ runIdx' = runIdx + 1
    /\ runPc' = "range"
    /\ UNCHANGED <<cfgVars, poolVars, clientVars, lisVars, aggVars, crashed,
                   histPool, histLis, retryVars, hashVars, appendVars, statVars,
                   reuseVars, sinceVars, signalVars, tests, scnArg>>

\* The scenario at position i ends the process with log.Fatalf.
ScenarioFatal(i) ==
    /\ Running
    /\ i \in 1..Len(tests)
    /\ scnPc[i] = "active"
    /\ \E f \in FatalsOf(tests[i]) : crashed' = f
    /\ UNCHANGED <<cfgVars, poolVars, clientVars, lisVars, aggVars,
                   histPool, histLis, retryVars, hashVars, appendVars, statVars,
                   reuseVars, sinceVars, signalVars, runVars>>

\* The range loop is at the end of tests: "return".
RunReturn ==
    /\ Running
    /\ runPc = "range"
    /\ runIdx > Len(tests)
    /\ runPc' = "returned"
    /\ UNCHANGED <<cfgVars, poolVars, clientVars, lisVars, aggVars, crashed,
                   histPool, histLis, retryVars, hashVars, appendVars, statVars,
                   reuseVars, sinceVars, signalVars, tests, runIdx, runR, scnPc, scnArg, scnRet>>

NextRunTests ==
    \/ RunCall
    \/ \E i \in 1..MaxTests : ScenarioReturn(i)
    \/ \E i \in 1..MaxTests : ScenarioFatal(i)
    \/ RunReturn

SpecRunTests == InitRunTests /\ [][NextRunTests]_vars

\* The results returned by the calls at positions 1..k, one after the other.
RECURSIVE Returned(_)
Returned(k) == IF k = 0 THEN <<>> ELSE Returned(k - 1) \o scnRet[k]

\* The positions of the scenarios that are called and have not returned.
Active == {i \in 1..Len(tests) : scnPc[i] = "active"}

\* C23: at most one scenario is active; a scenario is called only when all
\* scenarios before it in the list have returned, and with the clients
\* RunTests was given; r is the results of the scenarios that have returned,
\* in the order of the list; RunTests returns when all have returned.
C23_ScenariosInSequence ==
    /\ Cardinality(Active) <= 1
    /\ \A i \in 1..Len(tests) :
        scnPc[i] # "none" =>
            /\ \A j \in 1..(i - 1) : scnPc[j] = "returned"
            /\ scnArg[i] = clients
    /\ \E k \in 0..Len(tests) :
        /\ \A j \in 1..Len(tests) : scnPc[j] = "returned" <=> j <= k
        /\ runR = Returned(k)
    /\ runPc = "returned" => \A i \in 1..Len(tests) : scnPc[i] = "returned"

\* RunTests has returned from the Tests list of config.go with the three
\* TestResults of ConnectTest and OneWriteTest.
C23_Witness ==
    /\ test = "run"
    /\ runPc = "returned"
    /\ tests = <<"ConnectTest", "OneWriteTest">>
    /\ runR = <<[description |-> "Time to established connection", n |-> 1],
                [description |-> "Time until data have been reveiced", n |-> 0],
                [description |-> "Time until responce for one write request", n |-> 1]>>

(***************************************************************************)
(* Properties of the reader goroutine between two listeners.               *)
(***************************************************************************)

\* The next scenario calls listenToClients(clients, ..., count, nil) for the
\* clients of a listener that has set its done flag.
SecondListen ==
    /\ Running
    /\ test = "listen"
    /\ lisDone
    /\ chanId = 1
    /\ ListenStart(count, "nil")
    /\ recvRes' = EmptyResult
    /\ lisDur' = [c \in ClientIds |-> 0]
    /\ lisErr' = [c \in ClientIds |-> 0]
    /\ edData' = [c \in ClientIds |-> <<>>]
    /\ UNCHANGED <<cfgVars, retryVars, appendVars, statVars, extVars, expect, payloads,
                   rdMsg, firstHash, hashSeen, poolVars, clientVars, aggPc, logged,
                   poolRes, crashed, histPool>>

\* The server sends a message to client c, to which the ExpectData of the
\* second listener is attached.
Arrive(c) ==
    /\ Running
    /\ chanId = 2
    /\ conn[c] = "ok"
    /\ edPc[c] = "loop"
    /\ arrived[c] = 0
    /\ arrived' = [arrived EXCEPT ![c] = 1]
    /\ inbox' = [inbox EXCEPT ![c] = @ + 1]
    /\ UNCHANGED <<cfgVars, retryVars, appendVars, statVars, runVars, signalVars, sinceVars, hashVars, poolVars,
                   conn, wsRead, wsError, rdPc, rdChan, lisVars, aggVars, crashed,
                   histPool, histLis>>

NextReuse ==
    \/ NextListen
    \/ SecondListen
    \/ \E c \in ClientIds : Arrive(c)

\* The first of two listeners that run one after the other on the same
\* clients.
InitReuse ==
    /\ InitListen
    /\ Len(clients) <= ExpClients
    /\ Len(clients) > 1 =>
        /\ count = 1
        /\ sinceSet = "nil"
        /\ \A c \in ClientIds : inbox[c] <= 1

SpecReuse == InitReuse /\ [][NextReuse]_vars

\* The reader of client c is in the send of a message that nothing will
\* receive: on a nil channel, or on a channel of an ExpectData that has
\* returned.
Blocked(c) ==
    \/ rdPc[c] = "stuck"
    \/ rdPc[c] = "sendData" /\ rdChan[c] # edChan[c]

\* C25: when a message has arrived for a client after the second listener's
\* ExpectData attached to it, and that ExpectData waits for a message, the
\* client's reader is not blocked for ever in the send of an earlier message,
\* so that it can deliver the one that arrived.
C25_ReusableAfterSurplus ==
    \A c \in Range(clients) :
        (chanId = 2 /\ edPc[c] = "loop" /\ arrived[c] > 0) => ~Blocked(c)

\* C24: the reader of a client never stays in the send of a message it has
\* read while wsRead was nil: the message is dropped and the reader reads on.
C24_DetachedMessageDropped ==
    \A c \in Range(clients) : rdPc[c] # "stuck"

(***************************************************************************)
(* SpecSince: a listener called with since and an open sinceSet.  Its      *)
(* caller stores instants in *since, and then closes sinceSet ("Make sure  *)
(* to set since before").                                                  *)
(***************************************************************************)

InitSince ==
    /\ InitListen
    /\ sinceSet = "open"
    /\ Len(clients) <= ExpClients
    /\ Len(clients) > 1 => count = 1
    /\ \A c \in ClientIds : inbox[c] <= count

\* The caller stores the instant t in *since.
SetSince(t) ==
    /\ Running
    /\ sinceSet = "open"
    /\ t > since
    /\ since' = t
    /\ UNCHANGED <<cfgVars, poolVars, clientVars, lisVars, aggVars, crashed,
                   histPool, histLis, retryVars, hashVars, appendVars, statVars,
                   runVars, reuseVars, signalVars, edStart, sinceAtClose, lisStart>>

NextSince ==
    \/ NextListen
    \/ \E t \in 2..MaxSince : SetSince(t)

SpecSince == InitSince /\ [][NextSince]_vars

\* C26: with a sinceSet that is not nil, no client delivers a duration while
\* sinceSet is open; a delivered duration starts at the instant *since held
\* when sinceSet was closed; an ExpectData that has an error to report is
\* not waiting for sinceSet: its report can be taken at once.
C26_LateReferenceInstant ==
    \A c \in Range(clients) :
        /\ sinceSet = "open" => lisDur[c] = 0 /\ edPc[c] # "report"
        /\ lisDur[c] > 0 => sinceSet = "closed" /\ lisStart[c] = sinceAtClose
        /\ edPc[c] = "report" => edStart[c] = sinceAtClose
        /\ (edPc[c] = "reportErr" /\ Running) => ENABLED ListenReport(c)

\* The caller has stored two instants, one after the other, and closed
\* sinceSet; client 1 has delivered a duration from the later instant, client
\* 2 had reported an error before.
C26_Witness ==
    /\ test = "listen"
    /\ sinceSet = "closed"
    /\ since = 3
    /\ sinceAtClose = 3
    /\ Len(clients) = 2
    /\ lisDur[1] = 1
    /\ lisStart[1] = 3
    /\ lisErr[2] = 1
    /\ lisDone

(***************************************************************************)
(* SpecConnectTest: ConnectTest alone, from its call by RunTests to its    *)
(* return, for up to CtClients clients.                                    *)
(***************************************************************************)

\* main has logged every client in and RunTests calls ConnectTest.
InitConnectTest ==
    /\ test = "main"
    /\ \E n \in 1..CtClients : clients = Upto(n)
    /\ admins = {}
    /\ NoPool
    /\ NewClients
    /\ NoListener
    /\ aggPc = "login"
    /\ logged = Range(clients)
    /\ poolRes = EmptyResult
    /\ recvRes = EmptyResult
    /\ crashed = "no"
    /\ NoHistory
    /\ NoRetry
    /\ NoAppend
    /\ NoStats
    /\ NoExt
    /\ NoHashes

NextConnectTest ==
    \/ ConnectTestStart
    \/ PoolStep
    \/ \E w \in WorkerIds : ConnectReturn(w)
    \/ ReaderStep
    \/ ListenerStep
    \/ AggStep
    \/ Tick

SpecConnectTest == InitConnectTest /\ [][NextConnectTest]_vars

\* C27: while the connection attempt of a client is undecided its ExpectData
\* waits and the client has no channels; channels are set only on a client
\* whose waitForConnect is closed; the ExpectData of a client whose
\* connectionError is closed sets no channels, reports neither a duration nor
\* an error and goes on to its finish signal, which the listener can take;
\* such a client has the one error of its Connect in the connect result and
\* nothing in the data result, and ConnectTest returns with it.
C27_FailedConnectionSkipsListening ==
    /\ \A c \in Range(clients) :
        /\ conn[c] = "none" =>
            /\ edPc[c] \in {"none", "wait"}
            /\ wsRead[c] = Nil /\ wsError[c] = Nil
            /\ lisDur[c] + lisErr[c] = 0
        /\ (wsRead[c] # Nil \/ wsError[c] # Nil \/ edChan[c] # Nil) => conn[c] = "ok"
        /\ conn[c] = "failed" =>
            /\ edPc[c] \in {"wait", "finish", "done"}
            /\ lisDur[c] + lisErr[c] = 0
            /\ repDur[c] = 0
            /\ repErr[c] <= 1
            /\ (edPc[c] = "finish" /\ lisPc = "collect" /\ Running) =>
                  ENABLED ListenerRecvFinish(c)
            /\ (poolDone \/ aggPc = "returned") => repErr[c] = 1
            /\ lisDone => edPc[c] = "done"
    /\ poolRes.e = Cardinality({c \in Range(clients) : repErr[c] = 1})
    /\ recvRes.n + recvRes.e =
          Cardinality({c \in Range(clients) : lisDur[c] + lisErr[c] = 1})
    /\ (\A c \in Range(clients) : conn[c] = "failed") => recvRes = EmptyResult

\* ConnectTest has returned for a client whose Connect failed: that error is
\* the one entry of the connect result, the data result is empty, and the
\* listener is done.
C27_Witness ==
    /\ test = "ConnectTest"
    /\ aggPc = "returned"
    /\ conn[1] = "failed"
    /\ poolRes = [n |-> 0, e |-> 1]
    /\ recvRes = EmptyResult
    /\ edPc[1] = "done"
    /\ edChan[1] = Nil
    /\ wsRead[1] = Nil
    /\ lisDone

(***************************************************************************)
(* SpecOneWriteFirst: the loop of the first OneWriteTest, which ends on    *)
(* the number of entries of its result.  One goroutine per client receives *)
(* from the client's channels and sends a duration and then a hash, or an  *)
(* error.  In unnamed/part_000 the hash is the hash of the payload, in the *)
(* first version of test.go it is the hash of no bytes.                    *)
(***************************************************************************)

FirstVersions == {"OneWriteTest.part_000", "OneWriteTest.first"}

\* "hash.Sum64()" of no bytes.
EmptySum == 9

\* "hash.Write(value)" resp. "hash.Write([]byte{})", then "hash.Sum64()".
Sum64(value) ==
    IF test = "OneWriteTest.part_000" THEN hashData(value) ELSE EmptySum

\* admin.Send() has returned nil and the goroutines of the clients are
\* started; every client will read one payload.
InitOneWriteFirst ==
    /\ test \in FirstVersions
    /\ \E n \in 1..OwClients : clients = Upto(n)
    /\ admins = {1}
    /\ NoPool
    /\ ConnectedClients(Range(clients))
    /\ lisPc = "idle"
    /\ lisGot = 0
    /\ lisDone = FALSE
    /\ count = 0
    /\ edPc = [c \in ClientIds |-> IF c \in Range(clients) THEN "select" ELSE "none"]
    /\ edI = [c \in ClientIds |-> 0]
    /\ edChan = [c \in ClientIds |-> Nil]
    /\ sinceSet = "nil"
    /\ chanId = 1
    /\ aggPc = "select"
    /\ logged = Range(clients)
    /\ poolRes = EmptyResult
    /\ recvRes = EmptyResult
    /\ crashed = "no"
    /\ NoHistory
    /\ NoRetry
    /\ NoAppend
    /\ NoStats
    /\ NoExt
    /\ expect = 0
    /\ \E f \in [Range(clients) -> Payloads] :
        payloads = [c \in ClientIds |-> IF c \in Range(clients) THEN <<f[c]>> ELSE <<>>]
    /\ \A c, d \in Range(clients) : c < d => payloads[c][1] <= payloads[d][1]
    /\ rdMsg = [c \in ClientIds |-> NoData]
    /\ edData = [c \in ClientIds |-> <<>>]
    /\ firstHash = 0
    /\ hashSeen = <<>>

\* The select of client c's goroutine receives a payload from
\* client.GetReadChannel() or an error from client.GetErrorChannel().
FirstRecv(c) ==
    /\ Running
    /\ test \in FirstVersions
    /\ edPc[c] = "select"
    /\ \/ /\ rdMsg' = [rdMsg EXCEPT ![c] = Head(payloads[c])]
          /\ edPc' = [edPc EXCEPT ![c] = "sendDur"]
       \/ /\ edPc' = [edPc EXCEPT ![c] = "sendErr"]
          /\ UNCHANGED rdMsg
    /\ payloads' = [payloads EXCEPT ![c] = <<>>]
    /\ UNCHANGED <<cfgVars, retryVars, appendVars, statVars, extVars, expect, edData,
                   firstHash, hashSeen, poolVars, clientVars, lisPc, lisGot, lisDone,
                   count, edI, edChan, sinceSet, chanId, aggVars, crashed, histPool,
                   histLis>>

\* "if dataReceivedResult.Count()+dataReceivedResult.ErrCount() >=
\* len(clients) { break }" after a case of the select, for the result t.
FirstCheck(t) == IF CountBoth(t) >= Len(clients) THEN "returned" ELSE "select"

\* "case value := <-dataReceived" meets "dataReceived <- time.Since(start)"
\* of client c's goroutine.
FirstAggData(c) ==
    /\ Running
    /\ aggPc = "select"
    /\ edPc[c] = "sendDur"
    /\ recvRes' = Add(recvRes)
    /\ lisDur' = [lisDur EXCEPT ![c] = @ + 1]
    /\ edPc' = [edPc EXCEPT ![c] = "sendHash"]
    /\ aggPc' = FirstCheck(recvRes')
    /\ UNCHANGED <<cfgVars, retryVars, appendVars, statVars, extVars, hashVars, poolVars,
                   clientVars, lisPc, lisGot, lisDone, count, edI, edChan, sinceSet,
                   chanId, logged, poolRes, crashed, histPool, lisErr>>

\* "case value := <-dataHash" meets "dataHash <- hash.Sum64()" of client c's
\* goroutine.
FirstAggHash(c) ==
    /\ Running
    /\ aggPc = "select"
    /\ edPc[c] = "sendHash"
    /\ hashSeen' = Append(hashSeen, Sum64(rdMsg[c]))
    /\ firstHash' = IF firstHash = 0 THEN Sum64(rdMsg[c]) ELSE firstHash
    /\ IF firstHash # 0 /\ Sum64(rdMsg[c]) # firstHash
         THEN /\ recvRes' = AddError(recvRes)
              /\ lisErr' = [lisErr EXCEPT ![c] = @ + 1]
         ELSE UNCHANGED <<recvRes, lisErr>>
    /\ edPc' = [edPc EXCEPT ![c] = "done"]
    /\ aggPc' = FirstCheck(recvRes')
    /\ UNCHANGED <<cfgVars, retryVars, appendVars, statVars, extVars, expect, payloads,
                   rdMsg, edData, poolVars, clientVars, lisPc, lisGot, lisDone, count,
                   edI, edChan, sinceSet, chanId, logged, poolRes, crashed, histPool,
                   lisDur>>

\* "case value := <-errorReceived" meets "errorReceived <- value" of client
\* c's goroutine.
FirstAggError(c) ==
    /\ Running
    /\ aggPc = "select"
    /\ edPc[c] = "sendErr"
    /\ recvRes' = AddError(recvRes)
    /\ lisErr' = [lisErr EXCEPT ![c] = @ + 1]
    /\ edPc' = [edPc EXCEPT ![c] = "done"]
    /\ aggPc' = FirstCheck(recvRes')
    /\ UNCHANGED <<cfgVars, retryVars, appendVars, statVars, extVars, hashVars, poolVars,
                   clientVars, lisPc, lisGot, lisDone, count, edI, edChan, sinceSet,
                   chanId, logged, poolRes, crashed, histPool, lisDur>>

NextOneWriteFirst ==
    \/ \E c \in ClientIds : FirstRecv(c)
    \/ \E c \in ClientIds : FirstAggData(c)
    \/ \E c \in ClientIds : FirstAggHash(c)
    \/ \E c \in ClientIds : FirstAggError(c)

SpecOneWriteFirst == InitOneWriteFirst /\ [][NextOneWriteFirst]_vars

\* C28: in the first OneWriteTest no client has more than one entry in the
\* result, a duration or an error, and when the loop has ended every client
\* has its one entry.
C28_OneEntryPerClient ==
    /\ \A c \in Range(clients) : lisDur[c] + lisErr[c] <= 1
    /\ aggPc = "returned" => \A c \in Range(clients) : lisDur[c] + lisErr[c] = 1

(***************************************************************************)
(* Properties of the hand-over of the clients from one listener to the     *)
(* next.                                                                   *)
(***************************************************************************)

\* C30: when the done flag of listenToClients is true, wsRead and wsError of
\* every client of the listener are nil, and no SetChannels of a listener,
\* of the first or of the one that follows it, has ended the process.
C30_ChannelsClearedWhenDone ==
    /\ lisDone => \A c \in Range(clients) : wsRead[c] = Nil /\ wsError[c] = Nil
    /\ crashed # "fatalChannels"

\* The first listener is done and the ExpectData of the second has set its
\* channels on client 1, which had delivered a message to the first.
C30_Witness ==
    /\ test = "listen"
    /\ chanId = 2
    /\ ~lisDone
    /\ wsRead[1] = 2
    /\ wsError[1] = 2
    /\ edChan[1] = 2
    /\ edPc[1] = "loop"
    /\ lisStart[1] = OwnStart
    /\ Running

(***************************************************************************)
(* SpecLogin: loginClients over N clients with ParallelLogins workers.     *)
(* The function runs in the goroutine of its caller: it has returned when  *)
(* its deferred wg.Wait() has (poolPc = "done").                           *)
(***************************************************************************)

InitLogin ==
    /\ test = "login"
    /\ \E n \in 1..MaxClients : clients = Upto(n)
    /\ parallel \in 1..MaxPar
    /\ kind = "login"
    /\ admins = {}
    /\ poolClients = clients
    /\ poolPc = "dispatch"
    /\ nextIdx = 1
    /\ closed = FALSE
    /\ wg = WgAdd(clients)
    /\ poolDone = FALSE
    /\ wPc = [w \in WorkerIds |-> IF w \in Workers(parallel) THEN "idle" ELSE "none"]
    /\ wClient = [w \in WorkerIds |-> 0]
    /\ wErr = [w \in WorkerIds |-> FALSE]
    /\ NewClients
    /\ NoListener
    /\ aggPc = "idle"
    /\ logged = {}
    /\ poolRes = EmptyResult
    /\ recvRes = EmptyResult
    /\ crashed = "no"
    /\ NoHistory
    /\ NoRetry
    /\ NoAppend
    /\ NoStats
    /\ NoExt
    /\ NoHashes

\* The WaitGroup counter after the "wg.Done()" that follows a Login.
WgAfterLogin_NoDone(n) == n
WgAfterLogin(n) == n - 1

\* client.Login() returns in worker w: an error ends the process with
\* log.Fatalf, after nil the worker calls wg.Done() and ranges on.
LoginDone(w) ==
    /\ Running
    /\ kind = "login"
    /\ wPc[w] = "op"
    /\ \E ok \in BOOLEAN :
        IF ok
          THEN /\ logged' = logged \cup {wClient[w]}
               /\ wg' = WgAfterLogin(wg)
               /\ wPc' = [wPc EXCEPT ![w] = "idle"]
               /\ UNCHANGED crashed
          ELSE /\ crashed' = "fatalLogin"
               /\ UNCHANGED <<logged, wg, wPc>>
    /\ UNCHANGED <<cfgVars, retryVars, appendVars, statVars, extVars, hashVars, kind,
                   parallel, poolClients, poolPc, nextIdx, closed, poolDone, wClient,
                   wErr, clientVars, lisVars, aggPc, poolRes, recvRes, histPool,
                   histLis>>

NextLogin ==
    \/ PoolStep
    \/ \E w \in WorkerIds : LoginDone(w)

SpecLogin == InitLogin /\ [][NextLogin]_vars

\* The scheduler runs a goroutine that can take a step, and a Login call
\* returns.
FairSpecLogin == SpecLogin /\ WF_vars(NextLogin)

\* loginClients has returned.
LoginReturned == poolPc = "done"

\* No client has more than one Login call, and when loginClients has
\* returned no Login call is in progress and every client has had its one
\* call, which returned nil.
LoginOnce ==
    /\ \A c \in Range(clients) : opCalls[c] <= 1
    /\ LoginReturned =>
        /\ \A w \in WorkerIds : wPc[w] # "op"
        /\ \A c \in Range(clients) : opCalls[c] = 1
        /\ logged = Range(clients)
        /\ closed
        /\ Running

\* C29: with ParallelLogins >= 1, loginClients returns only after every
\* client's one Login call has returned, and when no Login fails it returns.
C29_LoginBarrier == [](LoginOnce) /\ <>(LoginReturned \/ ~Running)

\* loginClients has returned for three clients and two workers, which have
\* left their loops.
C29_Witness ==
    /\ test = "login"
    /\ LoginReturned
    /\ Len(clients) = 3
    /\ parallel = 2
    /\ logged = {1, 2, 3}
    /\ wPc[1] = "exited"
    /\ wPc[2] = "exited"

(***************************************************************************)
(* SpecConnect: Connect statement by statement, called once for each of up *)
(* to ScnClients new clients: the loop around Dial, close(connectionError) *)
(* on the failure path, and on the success path the write of c.connected   *)
(* followed by close(c.waitForConnect).                                    *)
(***************************************************************************)

\* c.IsConnected()
IsConnected(c) == connected[c] # ZeroTime

\* The instants time.Now() can return: never the zero time.
Instants == 1..MaxSince

\* The statement of Connect that follows the loop when it is left with the
\* outcome to ("nil": break after a Dial without error, "err": the loop
\* condition failed after a counted error): the failure path closes
\* connectionError, the success path first writes c.connected.
AfterDial_CloseFirst(to) ==
    CASE to = "nil" -> "close"
      [] to = "err" -> "fail"
      [] to = "loop" -> "dial"
AfterDial(to) ==
    CASE to = "nil" -> "stamp"
      [] to = "err" -> "fail"
      [] to = "loop" -> "dial"

InitConnect ==
    /\ test = "signals"
    /\ \E n \in 1..ScnClients : clients = Upto(n)
    /\ admins = {}
    /\ NoPool
    /\ NewClients
    /\ NoListener
    /\ aggPc = "idle"
    /\ logged = {}
    /\ poolRes = EmptyResult
    /\ recvRes = EmptyResult
    /\ crashed = "no"
    /\ NoHistory
    /\ NoRetry
    /\ NoHashes
    /\ NoAppend
    /\ NoStats
    /\ NoExt

\* c.Connect() is called: loginErrorCount := 0.
ConnectCall(c) ==
    /\ Running
    /\ test = "signals"
    /\ c \in Range(clients)
    /\ cnPc[c] = "idle"
    /\ cnPc' = [cnPc EXCEPT ![c] = "dial"]
    /\ loginErrorCount' = [loginErrorCount EXCEPT ![c] = 0]
    /\ UNCHANGED <<cfgVars, poolVars, clientVars, lisVars, aggVars, crashed, histPool, histLis,
                   rtOp, rtPc, tries, overload, hashVars, appendVars, statVars,
                   runVars, reuseVars, sinceVars, waitForConnect, connectionError, connected>>

\* One pass of the loop of Connect: the Dial, the count of an error other
\* than the bad handshake with status 503, and where the loop leaves to.
ConnectDial(c) ==
    /\ Running
    /\ test = "signals"
    /\ cnPc[c] = "dial"
    /\ tries[c] < MaxDials
    /\ \E r \in DialOutcomes :
        LET n == IF r = "error" THEN loginErrorCount[c] + 1 ELSE loginErrorCount[c] IN
        /\ loginErrorCount' = [loginErrorCount EXCEPT ![c] = n]
        /\ cnPc' = [cnPc EXCEPT ![c] = AfterDial(ConnectAfter(r, n))]
    /\ tries' = [tries EXCEPT ![c] = @ + 1]
    /\ UNCHANGED <<cfgVars, poolVars, clientVars, lisVars, aggVars, crashed, histPool, histLis,
                   rtOp, rtPc, overload, hashVars, appendVars, statVars,
                   runVars, reuseVars, sinceVars, waitForConnect, connectionError, connected>>

\* if err != nil: close(c.connectionError); return err.  Closing a closed
\* channel panics.
ConnectFail(c) ==
    /\ Running
    /\ test = "signals"
    /\ cnPc[c] = "fail"
    /\ IF connectionError[c] = "closed"
          THEN /\ crashed' = "panic"
               /\ UNCHANGED <<connectionError, conn, cnPc>>
          ELSE /\ connectionError' = [connectionError EXCEPT ![c] = "closed"]
               /\ conn' = [conn EXCEPT ![c] = "failed"]
               /\ cnPc' = [cnPc EXCEPT ![c] = "err"]
               /\ crashed' = crashed
    /\ UNCHANGED <<cfgVars, poolVars, wsRead, wsError, rdPc, rdChan, inbox, lisVars, aggVars,
                   histPool, histLis, retryVars, hashVars, appendVars, statVars,
                   runVars, reuseVars, sinceVars, waitForConnect, connected>>

\* c.connected = time.Now()
ConnectStamp(c) ==
    /\ Running
    /\ test = "signals"
    /\ cnPc[c] = "stamp"
    /\ \E t \in Instants : connected' = [connected EXCEPT ![c] = t]
    /\ cnPc' = [cnPc EXCEPT ![c] = "close"]
    /\ UNCHANGED <<cfgVars, poolVars, clientVars, lisVars, aggVars, crashed, histPool, histLis,
                   retryVars, hashVars, appendVars, statVars,
                   runVars, reuseVars, sinceVars, waitForConnect, connectionError>>

\* close(c.waitForConnect), the start of the reader goroutine, return nil;
\* the server answers the new connection with the first data.
ConnectClose(c) ==
    /\ Running
    /\ test = "signals"
    /\ cnPc[c] = "close"
    /\ IF waitForConnect[c] = "closed"
          THEN /\ crashed' = "panic"
               /\ UNCHANGED <<waitForConnect, conn, rdPc, inbox, cnPc>>
          ELSE /\ waitForConnect' = [waitForConnect EXCEPT ![c] = "closed"]
               /\ conn' = [conn EXCEPT ![c] = "ok"]
               /\ rdPc' = [rdPc EXCEPT ![c] = "read"]
               /\ inbox' = [inbox EXCEPT ![c] = @ + 1]
               /\ cnPc' = [cnPc EXCEPT ![c] = "nil"]
               /\ crashed' = crashed
    /\ UNCHANGED <<cfgVars, poolVars, wsRead, wsError, rdChan, lisVars, aggVars,
                   histPool, histLis, retryVars, hashVars, appendVars, statVars,
                   runVars, reuseVars, sinceVars, connectionError, connected>>

NextConnect ==
    \/ \E c \in ClientIds : ConnectCall(c)
    \/ \E c \in ClientIds : ConnectDial(c)
    \/ \E c \in ClientIds : ConnectFail(c)
    \/ \E c \in ClientIds : ConnectStamp(c)
    \/ \E c \in ClientIds : ConnectClose(c)

SpecConnect == InitConnect /\ [][NextConnect]_vars

\* C31: never are both signals of a client closed and no close hits a closed
\* channel; a Connect call that returned nil has closed waitForConnect and
\* only that, one that returned an error connectionError and only that;
\* while waitForConnect is closed IsConnected() is true, while
\* connectionError is closed it is false; before the call returns nothing
\* but the signal of its outcome can be closed.
C31_OneShotOutcome ==
    test = "signals" =>
        /\ crashed = "no"
        /\ \A c \in Range(clients) :
            /\ ~(waitForConnect[c] = "closed" /\ connectionError[c] = "closed")
            /\ cnPc[c] = "nil" <=> waitForConnect[c] = "closed"
            /\ cnPc[c] = "err" <=> connectionError[c] = "closed"
            /\ waitForConnect[c] = "closed" => IsConnected(c)
            /\ connectionError[c] = "closed" => ~IsConnected(c)
            /\ conn[c] = "ok" <=> waitForConnect[c] = "closed"
            /\ conn[c] = "failed" <=> connectionError[c] = "closed"

\* One client's Connect has returned nil after a Dial that failed, another's
\* an error after MaxConnectionAttemts counted errors.
C31_Witness ==
    /\ test = "signals"
    /\ \E c, d \in Range(clients) :
        /\ cnPc[c] = "nil" /\ waitForConnect[c] = "closed" /\ IsConnected(c)
        /\ tries[c] > 1
        /\ cnPc[d] = "err" /\ connectionError[d] = "closed"
        /\ loginErrorCount[d] = MaxConnectionAttemts

(***************************************************************************)
(* SpecFinish: the listener of SpecExpect over up to ExpClients clients of *)
(* which any may have failed to connect, so that ExpectData returns in     *)
(* each of its four ways: after connectionError, after an error of the     *)
(* connection, after data of another hash, and after its duration.         *)
(***************************************************************************)

InitFinish ==
    /\ test = "expect"
    /\ \E n \in 1..ExpClients : clients = Upto(n)
    /\ admins = {}
    /\ NoPool
    /\ conn \in [ClientIds -> {"none", "ok", "failed"}]
    /\ \A c \in ClientIds : conn[c] = "none" <=> c \notin Range(clients)
    /\ wsRead = [c \in ClientIds |-> Nil]
    /\ wsError = [c \in ClientIds |-> Nil]
    /\ rdPc = [c \in ClientIds |-> IF conn[c] = "ok" THEN "read" ELSE "off"]
    /\ rdChan = [c \in ClientIds |-> Nil]
    /\ count \in 1..MaxCount
    /\ Len(clients) > 1 => count = 1
    /\ expect \in {0} \cup {hashData(data) : data \in Payloads}
    /\ \E f \in [Range(clients) -> PayloadSeqs(count)] :
        payloads = [c \in ClientIds |-> IF c \in Range(clients) THEN f[c] ELSE <<>>]
    /\ \A c \in Range(clients) : conn[c] = "failed" => payloads[c] = <<>>
    /\ inbox = [c \in ClientIds |-> Len(payloads[c])]
    /\ \A c, d \in Range(clients) : c < d => ListenOrder(c, d)
    /\ rdMsg = [c \in ClientIds |-> NoData]
    /\ edData = [c \in ClientIds |-> <<>>]
    /\ firstHash = 0
    /\ hashSeen = <<>>
    /\ lisPc = "collect"
    /\ lisGot = 0
    /\ lisDone = FALSE
    /\ sinceSet = "nil"
    /\ edPc = [c \in ClientIds |-> IF c \in Range(clients) THEN "wait" ELSE "none"]
    /\ edI = [c \in ClientIds |-> 0]
    /\ edChan = [c \in ClientIds |-> Nil]
    /\ chanId = 1
    /\ aggPc = "idle"
    /\ logged = {}
    /\ poolRes = EmptyResult
    /\ recvRes = EmptyResult
    /\ crashed = "no"
    /\ NoHistory
    /\ NoRetry
    /\ NoAppend
    /\ NoStats
    /\ NoExt

NextFinish ==
    \/ ReaderStep
    \/ \E c \in ClientIds : EDConnected(c)
    \/ \E c \in ClientIds : EDConnFailed(c)
    \/ \E c \in ClientIds : EDRecvData(c)
    \/ \E c \in ClientIds : EDRecvErr(c)
    \/ \E c \in ClientIds : ListenerRecvFinish(c)
    \/ \E c \in ClientIds : ExpectReport(c)

SpecFinish == InitFinish /\ [][NextFinish]_vars

\* The clients whose ExpectData has sent its finish signal.
FinishSent == {c \in Range(clients) : edPc[c] = "done"}

\* ExpectData of client c has left its body in one of its four ways: by the
\* return after connectionError, or after the report of an error of the
\* connection, of data of another hash, or of its duration was received.
Exited(c) ==
    \/ conn[c] = "failed" /\ edPc[c] # "wait"
    \/ lisErr[c] = 1
    \/ lisDur[c] = 1

\* The signals received on finish are one from each client whose ExpectData
\* has sent one; an ExpectData that has left its body is at its deferred
\* send or has sent; the flag is true exactly when len(clients) signals were
\* received, and then no ExpectData is at its send or before it.
FinishCounted ==
    /\ lisGot = Cardinality(FinishSent)
    /\ \A c \in Range(clients) : Exited(c) <=> edPc[c] \in {"finish", "done"}
    /\ lisDone <=> lisGot = Len(clients)
    /\ lisDone => \A c \in Range(clients) : edPc[c] = "done"

\* C32: every ExpectData sends one finish signal on each of its ways out,
\* the listener's goroutine sets its flag after exactly len(clients) of
\* them, when no ExpectData is left at its send, and the flag never goes
\* back to false.
C32_FinishSignals ==
    /\ [](test = "expect" => FinishCounted)
    /\ [][lisDone => lisDone']_vars

\* The flag is true after two clients: the connection of one failed, the
\* other reported data of another hash.
C32_Witness ==
    /\ test = "expect"
    /\ lisDone
    /\ lisGot = 2
    /\ \E c, d \in Range(clients) :
        /\ conn[c] = "failed" /\ edPc[c] = "done" /\ lisDur[c] + lisErr[c] = 0
        /\ HashBad(d) /\ edPc[d] = "done" /\ lisErr[d] = 1

====
